---- MODULE Spec2Model ----
(***************************************************************************)
(* OneTab Importer: ingestion (validate, normalize, merge, persist) and    *)
(* search over the persisted master record.                                *)
(*                                                                         *)
(* Time.  A JavaScript time value is an integer number of milliseconds.    *)
(* The model counts time in ticks, TicksPerDay of them to a calendar day   *)
(* (JavaScript: 86400000), so that instants ten thousand years apart stay  *)
(* inside TLC's integers.  The last tick of a day stands for 23:59:59.999. *)
(*                                                                         *)
(* Text.  A string is a sequence of one-character strings.  An ISO-8601    *)
(* timestamp is the record of the fields Date.prototype.toISOString        *)
(* prints: the sign of an expanded year ("+", "-", or "" for the           *)
(* four-digit form), the digits of the year, month, day and time of day.   *)
(***************************************************************************)
EXTENDS Integers, Sequences, FiniteSets, TLC

VARIABLES master, now, obs

vars == <<master, now, obs>>

(***************************************************************************)
(* Bounds of the model.                                                    *)
(***************************************************************************)
TicksPerDay == 2

MaxGroups == 2

MaxTicks == 1

(***************************************************************************)
(* Calendar arithmetic of the Date object (proleptic Gregorian, UTC).      *)
(***************************************************************************)
DaysFromCivil(y, m, d) ==
    LET yy  == IF m <= 2 THEN y - 1 ELSE y
        era == yy \div 400
        yoe == yy - era * 400
        mp  == IF m > 2 THEN m - 3 ELSE m + 9
        doy == (153 * mp + 2) \div 5 + d - 1
        doe == yoe * 365 + yoe \div 4 - yoe \div 100 + doy
    IN  era * 146097 + doe - 719468

CivilFromDays(z0) ==
    LET z   == z0 + 719468
        era == z \div 146097
        doe == z - era * 146097
        yoe == (doe - doe \div 1460 + doe \div 36524 - doe \div 146096) \div 365
        doy == doe - (365 * yoe + yoe \div 4 - yoe \div 100)
        mp  == (5 * doy + 2) \div 153
        d   == doy - (153 * mp + 2) \div 5 + 1
        m   == IF mp < 10 THEN mp + 3 ELSE mp - 9
        y   == yoe + era * 400 + (IF m <= 2 THEN 1 ELSE 0)
    IN  [year |-> y, month |-> m, day |-> d]

\* Date range of ECMAScript: 100,000,000 days either side of the epoch.
MaxTimeDays == 100000000

TimeInRange(t) == /\ t >= -(MaxTimeDays * TicksPerDay)
                  /\ t <= MaxTimeDays * TicksPerDay

Instant(day, tod) == day * TicksPerDay + tod

Abs(n) == IF n < 0 THEN -n ELSE n

\* new Date(epochMs).toISOString(); defined for time values in range only
\* (toISOString throws RangeError otherwise, see CanIso).
epochToIso(epochMs) ==
    LET c == CivilFromDays(epochMs \div TicksPerDay)
    IN  [sign  |-> IF c.year < 0 THEN "-" ELSE IF c.year > 9999 THEN "+" ELSE "",
         year  |-> Abs(c.year),
         month |-> c.month,
         day   |-> c.day,
         tod   |-> epochMs % TicksPerDay]

CanIso(epochMs) == TimeInRange(epochMs)

\* new Date(isoString).getTime() for a well-formed ISO timestamp.
isoToEpoch(iso) ==
    Instant(DaysFromCivil(IF iso.sign = "-" THEN -iso.year ELSE iso.year,
                          iso.month, iso.day), iso.tod)

\* Code unit of the first character of the printed timestamp: "+" is 43,
\* "-" is 45, a digit is 48 or more.
LeadUnit(iso) == IF iso.sign = "+" THEN 43 ELSE IF iso.sign = "-" THEN 45 ELSE 48

IsoKey(iso) == <<LeadUnit(iso), iso.year, iso.month, iso.day, iso.tod>>

RECURSIVE LexLess(_, _)
LexLess(a, b) ==
    IF a = <<>> \/ b = <<>> THEN a = <<>> /\ b # <<>>
    ELSE IF Head(a) # Head(b) THEN Head(a) < Head(b)
    ELSE LexLess(Tail(a), Tail(b))

\* a < b as JavaScript compares two strings (by code unit); every field of a
\* printed timestamp is zero padded to a fixed width.
StrLess(a, b) == LexLess(IsoKey(a), IsoKey(b))

(***************************************************************************)
(* Text.                                                                   *)
(***************************************************************************)
ToLowerChar(c) ==
    CASE c = "A" -> "a" [] c = "B" -> "b" [] c = "C" -> "c" [] c = "D" -> "d"
      [] c = "E" -> "e" [] c = "F" -> "f" [] c = "G" -> "g" [] c = "H" -> "h"
      [] c = "I" -> "i" [] c = "J" -> "j" [] c = "K" -> "k" [] c = "L" -> "l"
      [] c = "M" -> "m" [] c = "N" -> "n" [] c = "O" -> "o" [] c = "P" -> "p"
      [] c = "Q" -> "q" [] c = "R" -> "r" [] c = "S" -> "s" [] c = "T" -> "t"
      [] c = "U" -> "u" [] c = "V" -> "v" [] c = "W" -> "w" [] c = "X" -> "x"
      [] c = "Y" -> "y" [] c = "Z" -> "z"
      [] OTHER -> c

toLowerCase(s) == [i \in 1..Len(s) |-> ToLowerChar(s[i])]

\* String.prototype.includes
includes(hay, needle) ==
    \E i \in 0..(Len(hay) - Len(needle)) : SubSeq(hay, i + 1, i + Len(needle)) = needle

StartsWith(s, p) == Len(s) >= Len(p) /\ SubSeq(s, 1, Len(p)) = p

Drop(s, n) == SubSeq(s, n + 1, Len(s))

\* The longest prefix of s holding none of the characters of stop.
RECURSIVE TakeUntil(_, _)
TakeUntil(s, stop) ==
    IF s = <<>> \/ Head(s) \in stop THEN <<>>
    ELSE <<Head(s)>> \o TakeUntil(Tail(s), stop)

Http == <<"h", "t", "t", "p", ":", "/", "/">>

Https == <<"h", "t", "t", "p", "s", ":", "/", "/">>

Unknown == <<"u", "n", "k", "n", "o", "w", "n">>

\* The prefix "http://" or "https://" of a url, compared as given (exact)
\* or without regard to case; <<>> when there is none.
SchemePrefix(url, exact) ==
    LET u == IF exact THEN url ELSE toLowerCase(url)
    IN  IF StartsWith(u, Https) THEN Https
        ELSE IF StartsWith(u, Http) THEN Http
        ELSE <<>>

\* new URL(url) for the urls of the model: http(s) urls without userinfo or
\* port, and strings without a colon.  The parser accepts the scheme in any
\* case, requires a host, and lower-cases it.
UrlHost(url) ==
    LET p == SchemePrefix(url, FALSE)
    IN  IF p = <<>> THEN <<>> ELSE TakeUntil(Drop(url, Len(p)), {"/", "?", "#"})

UrlParses(url) == UrlHost(url) # <<>>

\* url.match(/^(?:https?:\/\/)?([^:/]+)/): group 1, or <<>> without a match.
\* The optional prefix is tried first and given up when nothing follows it.
RegexHost(url) ==
    LET p      == SchemePrefix(url, TRUE)
        after  == TakeUntil(Drop(url, Len(p)), {":", "/"})
    IN  IF after # <<>> THEN after ELSE TakeUntil(url, {":", "/"})

extractDomain(url) ==
    IF UrlParses(url) THEN toLowerCase(UrlHost(url))
    ELSE IF RegexHost(url) # <<>> THEN RegexHost(url)
    ELSE Unknown

(***************************************************************************)
(* JSON values.  t is the value's JavaScript type; an object carries its   *)
(* own properties in f, an array its elements in items, a string its       *)
(* characters in s.  A string that is read as JSON text (state, tabGroups, *)
(* a stored database value) carries in text whether it parses and to what. *)
(***************************************************************************)
JUndef == [t |-> "undefined"]

JNull == [t |-> "null"]

JStr(s) == [t |-> "string", s |-> s]

JNum(n) == [t |-> "number", n |-> n]

JBool(b) == [t |-> "boolean", b |-> b]

JArr(items) == [t |-> "array", items |-> items]

JObj(f) == [t |-> "object", f |-> f]

BadJson == [t |-> "string", text |-> [valid |-> FALSE]]

\* JSON.stringify(v)
JSONstringify(v) == [t |-> "string", text |-> [valid |-> TRUE, val |-> v]]

\* JSON.parse(str): [ok |-> TRUE, val |-> v] or a SyntaxError
JSONparse(str) ==
    IF "text" \in DOMAIN str /\ str.text.valid
    THEN [ok |-> TRUE, val |-> str.text.val]
    ELSE [ok |-> FALSE]

\* obj[k] of JavaScript: undefined for a missing property
Field(obj, k) ==
    IF obj.t = "object" /\ k \in DOMAIN obj.f THEN obj.f[k] ELSE JUndef

\* typeof v === 'object' && v (objects and arrays; null is falsy)
IsObjectLike(v) == v.t \in {"object", "array"}

Throw(msg) == [ok |-> FALSE, err |-> msg]

(***************************************************************************)
(* Validation.                                                             *)
(***************************************************************************)
isValidTab(obj) ==
    /\ IsObjectLike(obj)
    /\ Field(obj, "id").t = "string"
    /\ Field(obj, "url").t = "string"
    /\ Field(obj, "title").t = "string"

isValidGroup(obj) ==
    /\ IsObjectLike(obj)
    /\ Field(obj, "id").t = "string"
    /\ Field(obj, "createDate").t = "number"
    /\ Field(obj, "tabsMeta").t = "array"
    /\ \A i \in 1..Len(Field(obj, "tabsMeta").items) :
          isValidTab(Field(obj, "tabsMeta").items[i])

EveryValidGroup(arr) == \A i \in 1..Len(arr.items) : isValidGroup(arr.items[i])

ErrNotObject == "expected an object"

ErrStateJson == "state is a string but not valid JSON"

ErrTabGroupsJson == "tabGroups is a string but not valid JSON"

ErrInvalidEntries == "tabGroups contains invalid entries"

ErrNoTabGroups == "could not find tabGroups array"

\* A property read as it arrives, a string left a string
ReparseNever(v) == [ok |-> TRUE, val |-> v]

\* A property that may arrive JSON-encoded: the parsed value when it is a
\* string, the value itself otherwise.
Reparse(v) ==
    IF v.t = "string"
    THEN JSONparse(v)
    ELSE [ok |-> TRUE, val |-> v]

\* A check that returns the well-formed groups and drops the others
CheckGroupsKeepingValid(arr) ==
    [ok |-> TRUE, groups |-> SelectSeq(arr.items, isValidGroup)]

CheckGroups(arr) ==
    IF EveryValidGroup(arr)
    THEN [ok |-> TRUE, groups |-> arr.items]
    ELSE Throw(ErrInvalidEntries)

\* The tail of validateOneTabExport: tabGroups at the top level.
ValidateTopLevel(obj) ==
    LET tg == Reparse(Field(obj, "tabGroups"))
    IN  IF ~tg.ok THEN Throw(ErrTabGroupsJson)
        ELSE IF tg.val.t = "array" THEN CheckGroups(tg.val)
        ELSE Throw(ErrNoTabGroups)

validateOneTabExport(data) ==
    IF ~IsObjectLike(data) THEN Throw(ErrNotObject)
    ELSE
      LET st == Reparse(Field(data, "state"))
      IN  IF ~st.ok THEN Throw(ErrStateJson)
          ELSE IF IsObjectLike(st.val)
          THEN LET tg == Reparse(Field(st.val, "tabGroups"))
               IN  IF ~tg.ok THEN Throw(ErrTabGroupsJson)
                   ELSE IF tg.val.t = "array" THEN CheckGroups(tg.val)
                   ELSE ValidateTopLevel(data)
          ELSE ValidateTopLevel(data)

(***************************************************************************)
(* Normalization.                                                          *)
(***************************************************************************)
SCHEMA_VERSION == "1.0.0"

nowIso(t) == epochToIso(t)

transformTab(tab) ==
    LET url    == Field(tab, "url").s
        title  == Field(tab, "title").s
    IN  [id     |-> Field(tab, "id").s,
         url    |-> url,
         title  |-> IF title # <<>> THEN title ELSE extractDomain(url),
         domain |-> extractDomain(url)]

\* A transformGroup that counts only the tabs that came with a title
transformGroupCountingTitled(group) ==
    LET meta == Field(group, "tabsMeta").items
        tabs == [i \in 1..Len(meta) |-> transformTab(meta[i])]
    IN  [id             |-> Field(group, "id").s,
         tabs           |-> tabs,
         createdAt      |-> epochToIso(Field(group, "createDate").n),
         createdAtEpoch |-> Field(group, "createDate").n,
         tabCount       |-> Cardinality({i \in 1..Len(meta) :
                                           Field(meta[i], "title").s # <<>>}),
         starred        |-> IF Field(group, "starred").t \in {"undefined", "null"}
                            THEN JBool(FALSE) ELSE Field(group, "starred"),
         title          |-> Field(group, "title")]

\* transformGroup of a group whose createDate the Date object can print
transformGroup(group) ==
    LET meta == Field(group, "tabsMeta").items
        tabs == [i \in 1..Len(meta) |-> transformTab(meta[i])]
    IN  [id             |-> Field(group, "id").s,
         tabs           |-> tabs,
         createdAt      |-> epochToIso(Field(group, "createDate").n),
         createdAtEpoch |-> Field(group, "createDate").n,
         tabCount       |-> Len(tabs),
         starred        |-> IF Field(group, "starred").t \in {"undefined", "null"}
                            THEN JBool(FALSE) ELSE Field(group, "starred"),
         title          |-> Field(group, "title")]

\* An insertion that leaves the groups in arrival order
InsertLast(g, sorted) == sorted \o <<g>>

\* groups.sort((a, b) => b.createdAtEpoch - a.createdAtEpoch): a stable sort,
\* so a group goes behind the groups that are not older than it.
RECURSIVE InsertByEpoch(_, _)
InsertByEpoch(g, sorted) ==
    IF sorted = <<>> THEN <<g>>
    ELSE IF Head(sorted).createdAtEpoch >= g.createdAtEpoch
         THEN <<Head(sorted)>> \o InsertByEpoch(g, Tail(sorted))
         ELSE <<g>> \o sorted

RECURSIVE SortNewestFirst(_)
SortNewestFirst(groups) ==
    IF groups = <<>> THEN <<>>
    ELSE InsertByEpoch(groups[Len(groups)],
                       SortNewestFirst(SubSeq(groups, 1, Len(groups) - 1)))

\* dates.sort(): ascending in the order of strings
RECURSIVE InsertString(_, _)
InsertString(d, sorted) ==
    IF sorted = <<>> THEN <<d>>
    ELSE IF StrLess(d, Head(sorted)) THEN <<d>> \o sorted
    ELSE <<Head(sorted)>> \o InsertString(d, Tail(sorted))

RECURSIVE SortStrings(_)
SortStrings(dates) ==
    IF dates = <<>> THEN <<>>
    ELSE InsertString(dates[Len(dates)], SortStrings(SubSeq(dates, 1, Len(dates) - 1)))

RECURSIVE SumTabCount(_)
SumTabCount(groups) ==
    IF groups = <<>> THEN 0
    ELSE Head(groups).tabCount + SumTabCount(Tail(groups))

\* The stats block both parseOneTabJson and mergeMasterData compute, at time t
CalcStats(groups, t) ==
    LET dates == SortStrings([i \in 1..Len(groups) |-> groups[i].createdAt])
    IN  [totalGroups |-> Len(groups),
         totalTabs   |-> SumTabCount(groups),
         dateRange   |-> [earliest |-> IF dates # <<>> THEN dates[1] ELSE nowIso(t),
                          latest   |-> IF dates # <<>> THEN dates[Len(dates)]
                                       ELSE nowIso(t)]]

ErrRange == "RangeError: Invalid time value"

\* parseOneTabJson(rawData, source) called at time t
parseOneTabJson(rawData, source, t) ==
    LET v == validateOneTabExport(rawData)
    IN  IF ~v.ok THEN v
        ELSE IF \E i \in 1..Len(v.groups) : ~CanIso(Field(v.groups[i], "createDate").n)
        THEN Throw(ErrRange)
        ELSE LET groups == SortNewestFirst(
                              [i \in 1..Len(v.groups) |-> transformGroup(v.groups[i])])
             IN  [ok   |-> TRUE,
                  data |-> [schemaVersion |-> SCHEMA_VERSION,
                            exportedAt    |-> nowIso(t),
                            source        |-> source,
                            stats         |-> CalcStats(groups, t),
                            groups        |-> groups]]

(***************************************************************************)
(* Merge.                                                                  *)
(***************************************************************************)
\* A set of ids that holds only the id of the first group
GroupIdsOfFirst(groups) == IF groups = <<>> THEN {} ELSE {groups[1].id}

GroupIds(groups) == {groups[i].id : i \in 1..Len(groups)}

\* A filter that keeps the incoming groups whose id is stored already
FilterKnown(groups, existingIds) == SelectSeq(groups, LAMBDA g : g.id \in existingIds)

\* A filter that lets every incoming group through
FilterNothing(groups, existingIds) == groups

\* newData.groups.filter((g) => !existingIds.has(g.id))
RECURSIVE FilterNew(_, _)
FilterNew(groups, existingIds) ==
    IF groups = <<>> THEN <<>>
    ELSE IF Head(groups).id \in existingIds
         THEN FilterNew(Tail(groups), existingIds)
         ELSE <<Head(groups)>> \o FilterNew(Tail(groups), existingIds)

\* A merge in which the incoming copy of a group replaces the stored one
mergeIncomingWins(existing, newData, t) ==
    LET incomingIds == GroupIds(newData.groups)
        keptGroups  == FilterNew(existing.groups, incomingIds)
        allGroups   == SortNewestFirst(keptGroups \o newData.groups)
    IN  [schemaVersion |-> SCHEMA_VERSION,
         exportedAt    |-> nowIso(t),
         source        |-> newData.source,
         stats         |-> CalcStats(allGroups, t),
         groups        |-> allGroups]

\* mergeMasterData(existing, newData) called at time t
mergeMasterData(existing, newData, t) ==
    LET existingIds == GroupIds(existing.groups)
        newGroups   == FilterNew(newData.groups, existingIds)
        allGroups   == SortNewestFirst(existing.groups \o newGroups)
    IN  [schemaVersion |-> SCHEMA_VERSION,
         exportedAt    |-> nowIso(t),
         source        |-> newData.source,
         stats         |-> CalcStats(allGroups, t),
         groups        |-> allGroups]

(***************************************************************************)
(* Inputs of the model: tabs, groups, tabGroups arrays and payloads.       *)
(***************************************************************************)
\* 2023-11-14, the day of createDate 1700000000000
DayNov2023 == DaysFromCivil(2023, 11, 14)

\* +010000-01-01, the day of createDate 253402300800000
DayYear10000 == DaysFromCivil(10000, 1, 1)

tGo == JObj([id    |-> JStr(<<"t", "1">>),
             url   |-> JStr(Https \o <<"G", "h", ".", "c", "/", "x">>),
             title |-> JStr(<<"G", "o">>)])

tBare == JObj([id    |-> JStr(<<"t", "2">>),
               url   |-> JStr(<<"A", "b", ".", "c", "/", "y">>),
               title |-> JStr(<<>>)])

tBadUrl == JObj([id |-> JStr(<<"t", "3">>), url |-> JNum(1), title |-> JStr(<<"X">>)])

gA1 == JObj([id         |-> JStr(<<"a">>),
             createDate |-> JNum(Instant(DayNov2023, 1)),
             tabsMeta   |-> JArr(<<tGo>>)])

gA2 == JObj([id         |-> JStr(<<"a">>),
             createDate |-> JNum(Instant(-1, 1)),
             tabsMeta   |-> JArr(<<tBare, tGo>>),
             starred    |-> JBool(TRUE),
             title      |-> JStr(<<"W">>)])

gB == JObj([id         |-> JStr(<<"b">>),
            createDate |-> JNum(Instant(DayYear10000, 0)),
            tabsMeta   |-> JArr(<<tBare>>)])

gC == JObj([id         |-> JStr(<<"c">>),
            createDate |-> JNum(Instant(DayNov2023, 1)),
            tabsMeta   |-> JArr(<<>>)])

gHuge == JObj([id         |-> JStr(<<"e">>),
               createDate |-> JNum(Instant(MaxTimeDays, 1)),
               tabsMeta   |-> JArr(<<tGo>>)])

gBadTab == JObj([id         |-> JStr(<<"f">>),
                 createDate |-> JNum(Instant(DayNov2023, 0)),
                 tabsMeta   |-> JArr(<<tGo, tBadUrl>>)])

gBadDate == JObj([id         |-> JStr(<<"g">>),
                  createDate |-> JStr(<<"2", "0", "2", "3">>),
                  tabsMeta   |-> JArr(<<tGo>>)])

gNoId == JObj([createDate |-> JNum(Instant(DayNov2023, 0)),
               tabsMeta   |-> JArr(<<tGo>>)])

gNoTabs == JObj([id         |-> JStr(<<"h">>),
                 createDate |-> JNum(Instant(DayNov2023, 0))])

ValidGroups == {gA1, gA2, gB, gC, gHuge}

InvalidGroups == {gBadTab, gBadDate, gNoId, gNoTabs, JNull}

SeqsUpTo(S, n) == UNION {[1..k -> S] : k \in 0..n}

\* The payload shapes: tabGroups under state or at the top level, with state
\* and tabGroups each plain or JSON-encoded.
ArrayShapes == {"state", "top", "stateStr", "tabGroupsStr", "bothStr", "topStr",
                "emptyState", "nullState"}

\* Shapes with a string that is not JSON, or with nothing to find.
BrokenShapes == {"badState", "badTabGroups", "badInner", "badTop", "null", "empty"}

Wrap(shape, items) ==
    LET arr == JArr(items)
    IN  CASE shape = "state"        -> JObj([state |-> JObj([tabGroups |-> arr])])
          [] shape = "top"          -> JObj([tabGroups |-> arr])
          [] shape = "stateStr"     ->
               JObj([state |-> JSONstringify(JObj([tabGroups |-> arr]))])
          [] shape = "tabGroupsStr" ->
               JObj([state |-> JObj([tabGroups |-> JSONstringify(arr)])])
          [] shape = "bothStr"      ->
               JObj([state |-> JSONstringify(JObj([tabGroups |-> JSONstringify(arr)]))])
          [] shape = "topStr"       -> JObj([tabGroups |-> JSONstringify(arr)])
          [] shape = "emptyState"   ->
               JObj([state |-> JObj(<<>>), tabGroups |-> arr])
          [] shape = "nullState"    ->
               JObj([state |-> JSONstringify(JNull), tabGroups |-> arr])
          [] shape = "badState"     -> JObj([state |-> BadJson, tabGroups |-> arr])
          [] shape = "badTabGroups" ->
               JObj([state |-> JObj([tabGroups |-> BadJson]), tabGroups |-> arr])
          [] shape = "badInner"     ->
               JObj([state |-> JSONstringify(JObj([tabGroups |-> BadJson])),
                     tabGroups |-> arr])
          [] shape = "badTop"       -> JObj([tabGroups |-> BadJson])
          [] shape = "null"         -> JNull
          [] shape = "empty"        -> JObj(<<>>)

CallArrays == SeqsUpTo(ValidGroups \cup InvalidGroups, MaxGroups)

DevtoolsSource == [browser |-> "edge", extensionId |-> "hoimpamkkoehapgenciaoajfkfkpgfop",
                   extractionMethod |-> "devtools"]

LevelDbSource == [DevtoolsSource EXCEPT !.extractionMethod = "leveldb"]

(***************************************************************************)
(* The master file.  writeJson stores JSON.stringify(data, null, 2), which *)
(* leaves out a property whose value is undefined (a group's title), and   *)
(* readJson parses the stored text back.                                   *)
(***************************************************************************)
StoredGroup(g) ==
    IF "title" \in DOMAIN g /\ g.title.t = "undefined"
    THEN [k \in (DOMAIN g) \ {"title"} |-> g[k]]
    ELSE g

\* What readJson returns for a file that writeJson wrote from data
StoredMaster(data) ==
    [data EXCEPT !.groups = [i \in 1..Len(data.groups) |-> StoredGroup(data.groups[i])]]

NoFile == [exists |-> FALSE]

writeJson(data) == [exists |-> TRUE, data |-> StoredMaster(data)]

\* group.title of a group read from the master file
GroupTitle(g) == IF "title" \in DOMAIN g THEN g.title ELSE JUndef

(***************************************************************************)
(* The key-value store of the extension, as parseLevelDb reads it.         *)
(* store is the sequence of its entries in key order; a value is the       *)
(* stored string.                                                          *)
(***************************************************************************)
ONETAB_KEYS == <<"state", "_state", "tabGroups", "_tabGroups">>

KeyChars(key) ==
    CASE key = "state"       -> <<"s", "t", "a", "t", "e">>
      [] key = "_state"      -> <<"_", "s", "t", "a", "t", "e">>
      [] key = "tabGroups"   -> <<"t", "a", "b", "G", "r", "o", "u", "p", "s">>
      [] key = "_tabGroups"  -> <<"_", "t", "a", "b", "G", "r", "o", "u", "p", "s">>
      [] key = "OneTabState" -> <<"O", "n", "e", "T", "a", "b", "S", "t", "a", "t", "e">>
      [] key = "lastSeenVersion" ->
           <<"l", "a", "s", "t", "S", "e", "e", "n", "V", "e", "r", "s", "i", "o", "n">>

EmptyString == JStr(<<>>)

\* db.get(key): the stored string, or LEVEL_NOT_FOUND
DbGet(store, key) ==
    IF \E i \in 1..Len(store) : store[i].key = key
    THEN [ok |-> TRUE,
          val |-> store[CHOOSE i \in 1..Len(store) : store[i].key = key].value]
    ELSE [ok |-> FALSE]

IsEmptyString(v) == v.t = "string" /\ "s" \in DOMAIN v /\ v.s = <<>>

\* tryGetValue(db, key): { [key]: parsed or raw value }, or null
tryGetValue(store, key) ==
    LET got == DbGet(store, key)
    IN  IF ~got.ok \/ IsEmptyString(got.val) THEN JNull
        ELSE IF JSONparse(got.val).ok
             THEN JObj((key :> JSONparse(got.val).val))
             ELSE JObj((key :> got.val))

\* The first of ONETAB_KEYS that yields a value
RECURSIVE TryKnownKeys(_, _)
TryKnownKeys(store, keys) ==
    IF keys = <<>> THEN JNull
    ELSE IF tryGetValue(store, Head(keys)) # JNull THEN tryGetValue(store, Head(keys))
    ELSE TryKnownKeys(store, Tail(keys))

KeyLooksLikeOneTab(key) ==
    LET lowerKey == toLowerCase(KeyChars(key))
    IN  \/ includes(lowerKey, <<"s", "t", "a", "t", "e">>)
        \/ includes(lowerKey, <<"t", "a", "b", "g", "r", "o", "u", "p">>)
        \/ includes(lowerKey, <<"o", "n", "e", "t", "a", "b">>)

\* results of scanForOneTabData: the parsed values of the matching keys
RECURSIVE ScanResults(_)
ScanResults(store) ==
    IF store = <<>> THEN <<>>
    ELSE IF KeyLooksLikeOneTab(Head(store).key) /\ JSONparse(Head(store).value).ok
         THEN <<[key |-> Head(store).key, value |-> JSONparse(Head(store).value).val]>>
              \o ScanResults(Tail(store))
         ELSE ScanResults(Tail(store))

RECURSIVE FirstNested(_)
FirstNested(results) ==
    IF results = <<>> THEN JNull
    ELSE IF /\ Head(results).value.t = "object"
            /\ {"tabGroups", "state"} \cap DOMAIN Head(results).value.f # {}
         THEN Head(results).value
         ELSE FirstNested(Tail(results))

Truthy(v) ==
    ~ \/ v.t \in {"undefined", "null"}
      \/ IsEmptyString(v)
      \/ v = JBool(FALSE)
      \/ v = JNum(0)

ResultAt(results, key) ==
    IF \E i \in 1..Len(results) : results[i].key = key
    THEN results[CHOOSE i \in 1..Len(results) : results[i].key = key].value
    ELSE JUndef

scanForOneTabData(store) ==
    LET results == ScanResults(store)
    IN  IF Truthy(ResultAt(results, "state"))
        THEN JObj([state |-> ResultAt(results, "state")])
        ELSE IF Truthy(ResultAt(results, "tabGroups"))
        THEN JObj([tabGroups |-> ResultAt(results, "tabGroups")])
        ELSE FirstNested(results)

ErrNoPath == "LevelDB path does not exist"

ErrNoCurrent == "Invalid LevelDB directory (CURRENT file not found)"

ErrOpen == "LEVEL_DATABASE_NOT_OPEN"

ErrNoData == "Could not find OneTab data in LevelDB"

\* parseLevelDb(levelDbPath, source) called at time t, db the directory
parseLevelDb(db, source, t) ==
    IF ~db.pathExists THEN Throw(ErrNoPath)
    ELSE IF ~db.hasCurrent THEN Throw(ErrNoCurrent)
    ELSE IF db.locked THEN Throw(ErrOpen)
    ELSE LET known   == TryKnownKeys(db.store, ONETAB_KEYS)
             rawData == IF known # JNull THEN known ELSE scanForOneTabData(db.store)
         IN  IF rawData = JNull THEN Throw(ErrNoData)
             ELSE parseOneTabJson(rawData,
                                  [source EXCEPT !.extractionMethod = "leveldb"], t)

\* The three operations again with the life of their store handle: what
\* happened to the handle, in order, and what the operation returned or
\* threw.  io tells which reads of the store fail: none, every get, or the
\* iterator.
IoErrors == {"none", "get", "iterate"}

ErrIo == "IO error: Corruption"

NoHandle(thrown) == [handle |-> <<>>, out |-> thrown]

\* A use of the store that closes the handle after the last statement of
\* the try block only
UseAndCloseOnReturn(db, body) ==
    LET tried == IF db.locked
                 THEN [handle |-> <<"created">>, out |-> Throw(ErrOpen)]
                 ELSE [handle |-> <<"created", "open">>, out |-> body]
    IN  IF tried.out.ok THEN [tried EXCEPT !.handle = Append(@, "closed")] ELSE tried

\* const db = new ClassicLevel(...); try { await db.open(); body }
\* finally { await db.close() }
UseAndClose(db, body) ==
    LET tried == IF db.locked
                 THEN [handle |-> <<"created">>, out |-> Throw(ErrOpen)]
                 ELSE [handle |-> <<"created", "open">>, out |-> body]
    IN  [tried EXCEPT !.handle = Append(@, "closed")]

parseLevelDbWithHandle(db, io, source, t) ==
    IF ~db.pathExists THEN NoHandle(Throw(ErrNoPath))
    ELSE IF ~db.hasCurrent THEN NoHandle(Throw(ErrNoCurrent))
    ELSE UseAndClose(db,
            LET known == IF io = "get" THEN JNull
                         ELSE TryKnownKeys(db.store, ONETAB_KEYS)
            IN  IF known = JNull /\ io = "iterate" THEN Throw(ErrIo)
                ELSE LET rawData == IF known # JNull THEN known
                                    ELSE scanForOneTabData(db.store)
                     IN  IF rawData = JNull THEN Throw(ErrNoData)
                         ELSE parseOneTabJson(
                                 rawData,
                                 [source EXCEPT !.extractionMethod = "leveldb"], t))

listLevelDbKeys(db, io) ==
    IF ~db.pathExists THEN NoHandle(Throw(ErrNoPath))
    ELSE UseAndClose(db,
            IF io = "iterate" THEN Throw(ErrIo)
            ELSE [ok   |-> TRUE,
                  keys |-> [i \in 1..Len(db.store) |-> db.store[i].key]])

dumpLevelDb(db, io) ==
    IF ~db.pathExists THEN NoHandle(Throw(ErrNoPath))
    ELSE UseAndClose(db,
            IF io = "iterate" THEN Throw(ErrIo)
            ELSE [ok   |-> TRUE,
                  data |-> [i \in 1..Len(db.store) |->
                              [key   |-> db.store[i].key,
                               value |-> IF JSONparse(db.store[i].value).ok
                                         THEN JSONparse(db.store[i].value).val
                                         ELSE db.store[i].value]]])

(***************************************************************************)
(* Search.                                                                 *)
(***************************************************************************)
NoDate == [kind |-> "none"]

\* new Date(year, month, 0).getDate(): the last day of the month; the Date
\* constructor reads a year from 0 to 99 as 1900 + year.
\* A month past 12 runs over into the next year, a month 0 is December of
\* the year before.
LastDayOfMonth(year, month) ==
    LET base == IF year \in 0..99 THEN 1900 + year ELSE year
        y    == base + ((month - 1) \div 12)
        m    == ((month - 1) % 12) + 1
    IN  DaysFromCivil(IF m = 12 THEN y + 1 ELSE y,
                      IF m = 12 THEN 1 ELSE m + 1, 1)
          - DaysFromCivil(y, m, 1)

\* parseFlexibleDate(dateStr, endOfPeriod) for dateStr of the forms YYYY,
\* YYYY-MM, YYYY-MM-DD with any digits, a full ISO timestamp, and a text
\* with the letter T that is no timestamp, which is returned as it is
parseFlexibleDate(d, endOfPeriod) ==
    LET tod == IF endOfPeriod THEN TicksPerDay - 1 ELSE 0
    IN  CASE d.kind = "iso"   -> d.iso
          [] d.kind = "text"  -> d
          [] d.kind = "day"   ->
               [sign |-> "", year |-> d.year, month |-> d.month, day |-> d.day,
                tod |-> tod]
          [] d.kind = "month" ->
               [sign |-> "", year |-> d.year, month |-> d.month,
                day  |-> IF endOfPeriod THEN LastDayOfMonth(d.year, d.month) ELSE 1,
                tod  |-> tod]
          [] d.kind = "year"  ->
               [sign |-> "", year |-> d.year,
                month |-> IF endOfPeriod THEN 12 ELSE 1,
                day   |-> IF endOfPeriod THEN 31 ELSE 1,
                tod   |-> tod]

\* new Date(iso).getTime() is a number: iso is a timestamp with a month from
\* 1 to 12 and a day from 1 to 31.  It is NaN otherwise, and every
\* comparison with NaN is false.
ValidTime(iso) ==
    /\ {"year", "month", "day", "tod"} \subseteq DOMAIN iso
    /\ iso.month \in 1..12
    /\ iso.day \in 1..31

\* An isDateInRange that leaves out the two bounds themselves
isDateInRangeExclusive(dateIso, from, to) ==
    LET date == isoToEpoch(dateIso)
    IN  /\ from = NoDate \/ ~ValidTime(from) \/ date > isoToEpoch(from)
        /\ to = NoDate \/ ~ValidTime(to) \/ date < isoToEpoch(to)

\* isDateInRange(dateIso, fromIso, toIso); from and to are NoDate when the
\* option is not given
isDateInRange(dateIso, from, to) ==
    LET date == isoToEpoch(dateIso)
    IN  /\ from = NoDate \/ ~(ValidTime(from) /\ date < isoToEpoch(from))
        /\ to = NoDate \/ ~(ValidTime(to) /\ date > isoToEpoch(to))

\* new RegExp(src, 'i') compiles; the patterns of the model are literal text
\* and text with an unclosed "[".
RegExpCompiles(src) == \A i \in 1..Len(src) : src[i] # "["

\* new RegExp(src, 'i').test(text) for a literal pattern
RegExpTest(src, text) == includes(toLowerCase(text), toLowerCase(src))

\* A match whose domain flag is also raised by a hit in the URL
matchesTabUrlAsDomain(tab, options) ==
    LET query    == toLowerCase(options.query)
        qTitle   == options.query # <<>> /\ includes(toLowerCase(tab.title), query)
        qUrl     == options.query # <<>> /\ includes(toLowerCase(tab.url), query)
        qDomain  == options.query # <<>> /\ includes(toLowerCase(tab.domain), query)
        inTitle  == \/ qTitle
                    \/ /\ options.titlePattern # <<>>
                       /\ RegExpCompiles(options.titlePattern)
                       /\ RegExpTest(options.titlePattern, tab.title)
        inUrl    == \/ qUrl
                    \/ /\ options.urlPattern # <<>>
                       /\ RegExpCompiles(options.urlPattern)
                       /\ RegExpTest(options.urlPattern, tab.url)
        inDomain == \/ qDomain
                    \/ inUrl
                    \/ /\ options.domain # <<>>
                       /\ includes(toLowerCase(tab.domain), toLowerCase(options.domain))
    IN  [matches  |-> inTitle \/ inUrl \/ inDomain,
         inTitle  |-> inTitle,
         inUrl    |-> inUrl,
         inDomain |-> inDomain]

\* A match that needs title, URL and domain to hit together
matchesTabAll(tab, options) ==
    LET query    == toLowerCase(options.query)
        qTitle   == options.query # <<>> /\ includes(toLowerCase(tab.title), query)
        qUrl     == options.query # <<>> /\ includes(toLowerCase(tab.url), query)
        qDomain  == options.query # <<>> /\ includes(toLowerCase(tab.domain), query)
        inTitle  == \/ qTitle
                    \/ /\ options.titlePattern # <<>>
                       /\ RegExpCompiles(options.titlePattern)
                       /\ RegExpTest(options.titlePattern, tab.title)
        inUrl    == \/ qUrl
                    \/ /\ options.urlPattern # <<>>
                       /\ RegExpCompiles(options.urlPattern)
                       /\ RegExpTest(options.urlPattern, tab.url)
        inDomain == \/ qDomain
                    \/ /\ options.domain # <<>>
                       /\ includes(toLowerCase(tab.domain), toLowerCase(options.domain))
    IN  [matches  |-> inTitle /\ inUrl /\ inDomain,
         inTitle  |-> inTitle,
         inUrl    |-> inUrl,
         inDomain |-> inDomain]

\* A matchesTab for which a tab matches when no predicate is given
matchesTabOrNoPredicate(tab, options) ==
    LET query    == toLowerCase(options.query)
        inTitle  == \/ options.query # <<>> /\ includes(toLowerCase(tab.title), query)
                    \/ /\ options.titlePattern # <<>>
                       /\ RegExpCompiles(options.titlePattern)
                       /\ RegExpTest(options.titlePattern, tab.title)
        inUrl    == \/ options.query # <<>> /\ includes(toLowerCase(tab.url), query)
                    \/ /\ options.urlPattern # <<>>
                       /\ RegExpCompiles(options.urlPattern)
                       /\ RegExpTest(options.urlPattern, tab.url)
        inDomain == \/ options.query # <<>> /\ includes(toLowerCase(tab.domain), query)
                    \/ /\ options.domain # <<>>
                       /\ includes(toLowerCase(tab.domain), toLowerCase(options.domain))
        none     == /\ options.query = <<>> /\ options.titlePattern = <<>>
                    /\ options.urlPattern = <<>> /\ options.domain = <<>>
    IN  [matches  |-> inTitle \/ inUrl \/ inDomain \/ none,
         inTitle  |-> inTitle,
         inUrl    |-> inUrl,
         inDomain |-> inDomain]

matchesTab(tab, options) ==
    LET query    == toLowerCase(options.query)
        qTitle   == options.query # <<>> /\ includes(toLowerCase(tab.title), query)
        qUrl     == options.query # <<>> /\ includes(toLowerCase(tab.url), query)
        qDomain  == options.query # <<>> /\ includes(toLowerCase(tab.domain), query)
        inTitle  == \/ qTitle
                    \/ /\ options.titlePattern # <<>>
                       /\ RegExpCompiles(options.titlePattern)
                       /\ RegExpTest(options.titlePattern, tab.title)
        inUrl    == \/ qUrl
                    \/ /\ options.urlPattern # <<>>
                       /\ RegExpCompiles(options.urlPattern)
                       /\ RegExpTest(options.urlPattern, tab.url)
        inDomain == \/ qDomain
                    \/ /\ options.domain # <<>>
                       /\ includes(toLowerCase(tab.domain), toLowerCase(options.domain))
    IN  [matches  |-> inTitle \/ inUrl \/ inDomain,
         inTitle  |-> inTitle,
         inUrl    |-> inUrl,
         inDomain |-> inDomain]

\* The console.warn calls of one matchesTab call: one for each pattern that
\* is given and does not compile
WarningsOfTab(options) ==
    (IF options.titlePattern # <<>> /\ ~RegExpCompiles(options.titlePattern)
     THEN 1 ELSE 0)
    + (IF options.urlPattern # <<>> /\ ~RegExpCompiles(options.urlPattern)
       THEN 1 ELSE 0)

RECURSIVE SearchTabs(_, _, _)
SearchTabs(tabs, group, options) ==
    IF tabs = <<>> THEN <<>>
    ELSE LET match == matchesTab(Head(tabs), options)
         IN  (IF match.matches
              THEN <<[tab     |-> Head(tabs),
                      group   |-> [id        |-> group.id,
                                   createdAt |-> group.createdAt,
                                   title     |-> GroupTitle(group)],
                      matches |-> [inTitle  |-> match.inTitle,
                                   inUrl    |-> match.inUrl,
                                   inDomain |-> match.inDomain]]>>
              ELSE <<>>)
             \o SearchTabs(Tail(tabs), group, options)

RECURSIVE SearchGroups(_, _, _, _)
SearchGroups(groups, options, fromDate, toDate) ==
    IF groups = <<>> THEN <<>>
    ELSE (IF isDateInRange(Head(groups).createdAt, fromDate, toDate)
          THEN SearchTabs(Head(groups).tabs, Head(groups), options)
          ELSE <<>>)
         \o SearchGroups(Tail(groups), options, fromDate, toDate)

\* The number of warnings searchData prints: matchesTab runs once for each
\* tab of each group that passes the date filter
RECURSIVE WarningsOfGroups(_, _, _, _)
WarningsOfGroups(groups, options, fromDate, toDate) ==
    IF groups = <<>> THEN 0
    ELSE (IF isDateInRange(Head(groups).createdAt, fromDate, toDate)
          THEN Len(Head(groups).tabs) * WarningsOfTab(options)
          ELSE 0)
         + WarningsOfGroups(Tail(groups), options, fromDate, toDate)

searchWarnings(masterData, options) ==
    WarningsOfGroups(masterData.groups, options,
                     IF options.from # NoDate
                     THEN parseFlexibleDate(options.from, FALSE) ELSE NoDate,
                     IF options.to # NoDate
                     THEN parseFlexibleDate(options.to, TRUE) ELSE NoDate)

searchData(masterData, options) ==
    SearchGroups(masterData.groups, options,
                 IF options.from # NoDate
                 THEN parseFlexibleDate(options.from, FALSE) ELSE NoDate,
                 IF options.to # NoDate
                 THEN parseFlexibleDate(options.to, TRUE) ELSE NoDate)

(***************************************************************************)
(* Export: period keys, buckets and output paths.  A key and a path        *)
(* segment are strings (sequences of characters); a path is the sequence   *)
(* of its segments.                                                        *)
(***************************************************************************)
DigitChar(d) == <<"0", "1", "2", "3", "4", "5", "6", "7", "8", "9">>[d + 1]

\* n.toString() for n >= 0
RECURSIVE NumChars(_)
NumChars(n) ==
    IF n < 10 THEN <<DigitChar(n)>>
    ELSE NumChars(n \div 10) \o <<DigitChar(n % 10)>>

\* chars.padStart(width, '0')
RECURSIVE PadStart(_, _)
PadStart(chars, width) ==
    IF Len(chars) >= width THEN chars ELSE PadStart(<<"0">> \o chars, width)

\* The printed timestamp up to its "T": YYYY-MM-DD, with the year as
\* +YYYYYY or -YYYYYY outside 0000..9999
DateChars(iso) ==
    (IF iso.sign = "" THEN <<>> ELSE <<iso.sign>>)
    \o PadStart(NumChars(iso.year), IF iso.sign = "" THEN 4 ELSE 6)
    \o <<"-">> \o PadStart(NumChars(iso.month), 2)
    \o <<"-">> \o PadStart(NumChars(iso.day), 2)

\* chars.substring(0, n)
substring(chars, n) == SubSeq(chars, 1, IF n < Len(chars) THEN n ELSE Len(chars))

getYearMonth(isoString) == substring(DateChars(isoString), 7)

getDateOnly(isoString) == substring(DateChars(isoString), 10)

\* year.toString()
YearChars(year) == IF year < 0 THEN <<"-">> \o NumChars(-year) ELSE NumChars(year)

\* Math.ceil(a / b) for b > 0
CeilDiv(a, b) == -((-a) \div b)

\* getYearWeek(isoString) in a time zone tz ticks ahead of UTC: the Date
\* object reads year, January 1 and weekday in local time, and the days
\* past January 1 are a fraction when the time of day is not midnight.
getYearWeek(isoString, tz) ==
    LET local          == isoToEpoch(isoString) + tz
        year           == CivilFromDays(local \div TicksPerDay).year
        firstDayOfYear == DaysFromCivil(year, 1, 1)
        pastTicks      == local - firstDayOfYear * TicksPerDay
        getDay         == (firstDayOfYear + 4) % 7
        weekNumber     == CeilDiv(pastTicks + (getDay + 1) * TicksPerDay,
                                  7 * TicksPerDay)
    IN  YearChars(year) \o <<"-", "W">> \o PadStart(NumChars(weekNumber), 2)

PeriodKey(group, groupBy, tz) ==
    CASE groupBy = "month" -> getYearMonth(group.createdAt)
      [] groupBy = "week"  -> getYearWeek(group.createdAt, tz)
      [] groupBy = "day"   -> getDateOnly(group.createdAt)

\* An AddToPeriod that sets the bucket of the key to the one new group
AddToPeriodReplacing(periodMap, key, group) ==
    IF \E i \in 1..Len(periodMap) : periodMap[i].key = key
    THEN [i \in 1..Len(periodMap) |->
            IF periodMap[i].key = key
            THEN [periodMap[i] EXCEPT !.groups = <<group>>]
            ELSE periodMap[i]]
    ELSE Append(periodMap, [key |-> key, groups |-> <<group>>])

\* periodMap after one more group: the group goes to the end of the bucket
\* of its key, a new key to the end of the map
AddToPeriod(periodMap, key, group) ==
    IF \E i \in 1..Len(periodMap) : periodMap[i].key = key
    THEN [i \in 1..Len(periodMap) |->
            IF periodMap[i].key = key
            THEN [periodMap[i] EXCEPT !.groups = Append(@, group)]
            ELSE periodMap[i]]
    ELSE Append(periodMap, [key |-> key, groups |-> <<group>>])

\* groupByPeriod(groups, groupBy): the entries of the Map in insertion order
RECURSIVE groupByPeriod(_, _, _)
groupByPeriod(groups, groupBy, tz) ==
    IF groups = <<>> THEN <<>>
    ELSE AddToPeriod(groupByPeriod(SubSeq(groups, 1, Len(groups) - 1), groupBy, tz),
                     PeriodKey(groups[Len(groups)], groupBy, tz),
                     groups[Len(groups)])

\* formatDateForHeader(isoString): the date and time of day in local time
formatDateForHeader(isoString, tz) == epochToIso(isoToEpoch(isoString) + tz)

\* generateGroupMarkdown(group): the header line and the bullet list
generateGroupMarkdown(group, tz) ==
    [dateStr |-> formatDateForHeader(group.createdAt, tz),
     title   |-> IF Truthy(GroupTitle(group)) THEN GroupTitle(group).s ELSE <<>>,
     starred |-> Truthy(group.starred),
     links   |-> [i \in 1..Len(group.tabs) |->
                    [text |-> IF group.tabs[i].title # <<>>
                              THEN group.tabs[i].title ELSE group.tabs[i].domain,
                     url  |-> group.tabs[i].url]]]

\* A period file that lists the groups in the order they were passed in
generatePeriodMarkdownAsPassed(periodKey, groups, groupBy, tz, t) ==
    [period      |-> periodKey,
     groupBy     |-> groupBy,
     totalGroups |-> Len(groups),
     totalTabs   |-> SumTabCount(groups),
     generated   |-> nowIso(t),
     sections    |-> [i \in 1..Len(groups) |-> generateGroupMarkdown(groups[i], tz)]]

\* generatePeriodMarkdown(periodKey, groups, groupBy) at time t: front
\* matter, then the groups of a sorted copy, newest first
generatePeriodMarkdown(periodKey, groups, groupBy, tz, t) ==
    LET sortedGroups == SortNewestFirst(groups)
    IN  [period      |-> periodKey,
         groupBy     |-> groupBy,
         totalGroups |-> Len(groups),
         totalTabs   |-> SumTabCount(groups),
         generated   |-> nowIso(t),
         sections    |-> [i \in 1..Len(sortedGroups) |->
                            generateGroupMarkdown(sortedGroups[i], tz)]]

\* A path is the sequence of its segments below the working directory.
MasterJson == << <<"d", "a", "t", "a">>,
                 <<"m", "a", "s", "t", "e", "r", ".", "j", "s", "o", "n">> >>

OutputDir == << <<"o", "u", "t", "p", "u", "t">> >>

AllLinksMd == <<"a", "l", "l", "-", "l", "i", "n", "k", "s", ".", "m", "d">>

DEFAULT_PATHS == [masterJson |-> MasterJson, outputDir |-> OutputDir]

\* `${periodKey}.md`
MdName(periodKey) == periodKey \o <<".", "m", "d">>

getOutputPath(outputDir, periodKey, groupBy) ==
    LET year == substring(periodKey, 4)
    IN  CASE groupBy = "month" -> outputDir \o <<year, MdName(periodKey)>>
          [] groupBy = "week"  -> outputDir \o <<year, MdName(periodKey)>>
          [] groupBy = "day"   ->
               outputDir \o <<year, substring(periodKey, 7), MdName(periodKey)>>

\* An option that was not given is <<>> (a path, a granularity) or NoDate.
NoOption == <<>>

OrDefault(option, default) == IF option = NoOption THEN default ELSE option

\* exportCommand, lines 160-177: the groups the from/to options keep
FilterByDateRange(groups, options) ==
    IF options.from # NoDate \/ options.to # NoDate
    THEN LET fromDate == IF options.from # NoDate
                         THEN parseFlexibleDate(options.from, FALSE) ELSE NoDate
             toDate   == IF options.to # NoDate
                         THEN parseFlexibleDate(options.to, TRUE) ELSE NoDate
         IN  SelectSeq(groups, LAMBDA group : isDateInRange(group.createdAt, fromDate, toDate))
    ELSE groups

\* exportCommand(options) on the record masterData read from the input file,
\* in time zone tz at time t: the files it writes, in the order of writing
exportCommand(masterData, options, tz, t) ==
    LET outputDir      == OrDefault(options.output, DEFAULT_PATHS.outputDir)
        groupBy        == IF options.groupBy = "" THEN "month" ELSE options.groupBy
        filteredGroups == FilterByDateRange(masterData.groups, options)
        periodMap      == groupByPeriod(filteredGroups, groupBy, tz)
    IN  [filteredGroups |-> filteredGroups,
         periodMap      |-> periodMap,
         files          |->
            [i \in 1..Len(periodMap) |->
               [filePath |-> getOutputPath(outputDir, periodMap[i].key, groupBy),
                markdown |-> generatePeriodMarkdown(periodMap[i].key,
                                                    periodMap[i].groups, groupBy, tz, t)]],
         masterData     |-> masterData]

\* Code unit of a character of a period key
CodeUnit(c) ==
    CASE c = "+" -> 43 [] c = "-" -> 45 [] c = "W" -> 87
      [] OTHER   -> 48 + (CHOOSE d \in 0..9 : DigitChar(d) = c)

KeyLess(a, b) == LexLess([i \in 1..Len(a) |-> CodeUnit(a[i])],
                         [i \in 1..Len(b) |-> CodeUnit(b[i])])

\* keys.sort().reverse(): descending in the order of strings
RECURSIVE InsertKey(_, _)
InsertKey(key, sorted) ==
    IF sorted = <<>> THEN <<key>>
    ELSE IF KeyLess(Head(sorted), key) THEN <<key>> \o sorted
    ELSE <<Head(sorted)>> \o InsertKey(key, Tail(sorted))

RECURSIVE SortKeysDescending(_)
SortKeysDescending(keys) ==
    IF keys = <<>> THEN <<>>
    ELSE InsertKey(Head(keys), SortKeysDescending(Tail(keys)))

BucketOf(periodMap, key) ==
    periodMap[CHOOSE i \in 1..Len(periodMap) : periodMap[i].key = key].groups

\* exportSingleFile(options): the one file it writes
exportSingleFile(masterData, options, tz, t) ==
    LET outputPath   == OrDefault(options.output,
                                  DEFAULT_PATHS.outputDir \o <<AllLinksMd>>)
        byMonth      == groupByPeriod(masterData.groups, "month", tz)
        sortedMonths == SortKeysDescending([i \in 1..Len(byMonth) |-> byMonth[i].key])
    IN  [files |->
           << [filePath |-> outputPath,
               markdown |->
                 [totalGroups |-> masterData.stats.totalGroups,
                  totalTabs   |-> masterData.stats.totalTabs,
                  dateRange   |-> [earliest |-> getDateOnly(masterData.stats.dateRange.earliest),
                                   latest   |-> getDateOnly(masterData.stats.dateRange.latest)],
                  generated   |-> nowIso(t),
                  months      |->
                    [m \in 1..Len(sortedMonths) |->
                       [month    |-> sortedMonths[m],
                        sections |->
                          LET groups == BucketOf(byMonth, sortedMonths[m])
                          IN  [i \in 1..Len(groups) |->
                                 generateGroupMarkdown(groups[i], tz)]]]]] >>,
         masterData |-> masterData]

\* Command line options whose output default is the master file
ExportCliOptionsOntoInput(args) ==
    [args EXCEPT !.input   = OrDefault(@, DEFAULT_PATHS.masterJson),
                 !.output  = OrDefault(@, DEFAULT_PATHS.masterJson),
                 !.groupBy = IF @ = "" THEN "month" ELSE @]

\* The options object the command line hands to the export action: every
\* option declared with a default has a value
ExportCliOptions(args) ==
    [args EXCEPT !.input   = OrDefault(@, DEFAULT_PATHS.masterJson),
                 !.output  = OrDefault(@, DEFAULT_PATHS.outputDir),
                 !.groupBy = IF @ = "" THEN "month" ELSE @]

(***************************************************************************)
(* More inputs: master records, stores and search options.                 *)
(***************************************************************************)
MergeGroups == {gA1, gA2, gB, gC}

StaleStats == [totalGroups |-> 7,
               totalTabs   |-> 9,
               dateRange   |-> [earliest |-> epochToIso(0), latest |-> epochToIso(0)]]

\* A master record as a file may hold it: groups in any order, stats that
\* need not agree with them.
HandMade(items) ==
    [schemaVersion |-> SCHEMA_VERSION,
     exportedAt    |-> epochToIso(0),
     source        |-> [DevtoolsSource EXCEPT !.extractionMethod = "import"],
     stats         |-> StaleStats,
     groups        |-> [i \in 1..Len(items) |-> StoredGroup(transformGroup(items[i]))]]

ExistingSamples == {HandMade(items) : items \in SeqsUpTo(MergeGroups, MaxGroups)}

Parsed(items, t) == parseOneTabJson(Wrap("state", items), DevtoolsSource, t).data

IncomingItems == SeqsUpTo(MergeGroups, MaxGroups)

\* The tabGroups arrays of the import runs: one group, several groups out of
\* order, one id twice with different content, an invalid tab record, and a
\* createDate the Date object cannot print.
ImportArrays ==
    {<<>>, <<gA1>>, <<gA2>>, <<gC>>, <<gA2, gB>>, <<gA1, gA2>>, <<gB, gBadTab>>,
     <<gHuge, gA1>>}

ImportPayloads ==
    {Wrap(sh, items) : sh \in {"state", "bothStr"}, items \in ImportArrays}
    \cup {Wrap(sh, <<gA1>>) : sh \in {"null", "empty", "badState", "badTabGroups"}}

Entry(key, value) == [key |-> key, value |-> value]

StoreShapes == {"state", "stateTwice", "underscore", "tabGroups", "scan",
                "_state", "_tabGroups", "garbled"}

\* A store that holds the tabGroups array under one of the keys
StoreOf(shape, items) ==
    LET arr   == JArr(items)
        state == JObj([tabGroups |-> arr])
    IN  CASE shape = "state"      -> <<Entry("state", JSONstringify(state))>>
          [] shape = "stateTwice" ->
               <<Entry("state", JSONstringify(JSONstringify(state)))>>
          [] shape = "underscore" ->
               <<Entry("_state", JSONstringify(state)),
                 Entry("tabGroups", JSONstringify(arr))>>
          [] shape = "tabGroups"  -> <<Entry("tabGroups", JSONstringify(arr))>>
          [] shape = "scan"       ->
               <<Entry("OneTabState", JSONstringify(state)),
                 Entry("lastSeenVersion", JSONstringify(JNum(1)))>>
          [] shape = "_state"     -> <<Entry("_state", JSONstringify(state))>>
          [] shape = "_tabGroups" -> <<Entry("_tabGroups", JSONstringify(arr))>>
          [] shape = "garbled"    ->
               <<Entry("state", BadJson),
                 Entry("OneTabState", JSONstringify(state))>>

Dir(store) == [pathExists |-> TRUE, hasCurrent |-> TRUE, locked |-> FALSE, store |-> store]

LevelDbDirs ==
    {Dir(StoreOf(sh, items)) : sh \in StoreShapes,
                               items \in {<<gC>>, <<gA2, gBadTab>>}}
    \cup {Dir(<<>>),
          Dir(<<Entry("state", EmptyString)>>),
          Dir(<<Entry("state", BadJson)>>),
          Dir(<<Entry("lastSeenVersion", JSONstringify(JNum(1)))>>),
          [Dir(<<>>) EXCEPT !.pathExists = FALSE],
          [Dir(<<>>) EXCEPT !.hasCurrent = FALSE],
          [Dir(StoreOf("state", <<gC>>)) EXCEPT !.locked = TRUE]}

Month(y, m) == [kind |-> "month", year |-> y, month |-> m]

Year(y) == [kind |-> "year", year |-> y]

Day(y, m, d) == [kind |-> "day", year |-> y, month |-> m, day |-> d]

SearchOptions ==
    [query        : {<<>>, <<"O">>, <<"g">>},
     titlePattern : {<<>>, <<"a", "B">>, <<"[">>},
     urlPattern   : {<<>>, <<"/", "Y">>, <<"[">>},
     domain       : {<<>>, <<"G", "H">>},
     from         : {NoDate, Month(2023, 11), Day(2023, 11, 15)},
     to           : {NoDate, Month(2023, 11), Year(1969)}]

NoCriteria(options) ==
    /\ options.query = <<>> /\ options.titlePattern = <<>>
    /\ options.urlPattern = <<>> /\ options.domain = <<>>
    /\ options.from = NoDate /\ options.to = NoDate

\* A text with the letter T that is not a timestamp
NotATimestamp == [kind |-> "text", chars |-> <<"T", "B", "D">>]

\* Bounds that denote no date: month 13, and such a text
InvalidBounds == {Month(2023, 13), NotATimestamp}

\* The options of the search command runs: no text predicate or a query,
\* and a query with a bound that denotes no date.
CommandOptions ==
    {o \in SearchOptions :
        /\ o.titlePattern = <<>> /\ o.urlPattern = <<>> /\ o.domain = <<>>
        /\ o.query \in {<<>>, <<"g">>}
        /\ o.to \in {NoDate, Year(1969)}}
    \cup {[query |-> <<"g">>, titlePattern |-> <<>>, urlPattern |-> <<>>,
           domain |-> <<>>, from |-> from, to |-> to] :
             from, to \in {NoDate} \cup InvalidBounds}

\* Date options of the forms YYYY, YYYY-MM, YYYY-MM-DD and full timestamps:
\* leap and non-leap years, a century year, and the year 0000
DateYears == {0, 1900, 2023, 2024}

DateInputs ==
    {Year(y) : y \in DateYears}
    \cup {Month(y, m) : y \in DateYears, m \in 1..12}
    \cup {Day(y, m, d) : y \in DateYears, m \in 1..12, d \in {1, 28}}
    \cup {[kind |-> "iso", iso |-> epochToIso(Instant(day, tod))] :
             day \in {DayNov2023, DayYear10000, -1}, tod \in {0, TicksPerDay - 1}}

SearchSamples ==
    {StoredMaster(Parsed(items, 0)) : items \in {<<gA1>>, <<gA2, gB>>, <<gB, gA1, gA2>>}}

\* Groups for the export: one in the middle of June 2025, the first and the
\* last instants of June 2025 and their neighbours, a Saturday (2023-01-07)
\* at midnight and later in the day, and a January 1
ExportGroup(id, y, m, d, tod) ==
    JObj([id         |-> JStr(<<id>>),
          createDate |-> JNum(Instant(DaysFromCivil(y, m, d), tod)),
          tabsMeta   |-> JArr(<<tGo>>)])

gJun == ExportGroup("j", 2025, 6, 15, 1)

gJunFirst == ExportGroup("k", 2025, 6, 1, 0)

gJunLast == ExportGroup("l", 2025, 6, 30, TicksPerDay - 1)

gJulFirst == ExportGroup("m", 2025, 7, 1, 0)

gMayLast == ExportGroup("n", 2025, 5, 31, TicksPerDay - 1)

gSat == ExportGroup("s", 2023, 1, 7, 0)

gSatLate == JObj(ExportGroup("u", 2023, 1, 7, TicksPerDay - 1).f
                 @@ [starred |-> JBool(TRUE)])

gJan1 == ExportGroup("v", 2023, 1, 1, 0)

ExportSamples ==
    {HandMade(items) :
        items \in {<<>>, <<gJun>>,
                   <<gJunLast, gJulFirst, gJunFirst, gMayLast>>,
                   <<gSat, gJan1, gSatLate>>,
                   <<gA1, gB, gC, gA2>>}}

\* The offset of local time from UTC, in ticks
TimeZones == {-1, 0, 1}

ExportOptions ==
    [input   : {NoOption},
     output  : {NoOption, << <<"n">> >>},
     groupBy : {"", "month", "week", "day"},
     from    : {NoDate, Month(2025, 6), Month(2025, 7)},
     to      : {NoDate, Month(2025, 6), Month(2025, 5)}]

(***************************************************************************)
(* The commands.  One process runs at a time: obs is Idle when none runs,  *)
(* and tells how the command ended until its process exits.                *)
(***************************************************************************)
Idle == [op |-> "none"]

Failed(cmd, msg) == [op |-> cmd, status |-> "failed", err |-> msg]

ErrRead == "EACCES: permission denied"

\* An import that saves the parsed batch before it reads the master file
FinishImportSavingFirst(parsed, readFails) ==
    IF ~parsed.ok
    THEN /\ obs' = Failed("import", parsed.err)
         /\ UNCHANGED master
    ELSE IF master.exists /\ readFails
    THEN /\ obs' = Failed("import", ErrRead)
         /\ master' = writeJson(parsed.data)
    ELSE LET masterData == IF master.exists
                           THEN mergeMasterData(master.data, parsed.data, now)
                           ELSE parsed.data
             previousCount == IF master.exists THEN master.data.stats.totalGroups ELSE 0
         IN  /\ master' = writeJson(masterData)
             /\ obs' = [op     |-> "import",
                        status |-> "ok",
                        batch  |-> [i \in 1..Len(parsed.data.groups) |->
                                      parsed.data.groups[i].id],
                        merged |-> master.exists,
                        added  |-> masterData.stats.totalGroups - previousCount]

\* An import that saves the parsed batch without reading the master file
FinishImportWithoutMerge(parsed, readFails) ==
    IF ~parsed.ok
    THEN /\ obs' = Failed("import", parsed.err)
         /\ UNCHANGED master
    ELSE /\ master' = writeJson(parsed.data)
         /\ obs' = [op     |-> "import",
                    status |-> "ok",
                    batch  |-> [i \in 1..Len(parsed.data.groups) |->
                                  parsed.data.groups[i].id],
                    merged |-> master.exists,
                    added  |-> 0]

\* importCommand from line 109 on, parsed the result of the parser: merge
\* with the master file when there is one, then save
\* importCommand, lines 112-116: the number of new groups it reports after
\* the merge of masterData into existingData
ReportedNewGroups(existingData, masterData) ==
    masterData.stats.totalGroups - existingData.stats.totalGroups

FinishImport(parsed, readFails) ==
    IF ~parsed.ok
    THEN /\ obs' = Failed("import", parsed.err)
         /\ UNCHANGED master
    ELSE IF master.exists /\ readFails
    THEN /\ obs' = Failed("import", ErrRead)
         /\ UNCHANGED master
    ELSE LET masterData == IF master.exists
                           THEN mergeMasterData(master.data, parsed.data, now)
                           ELSE parsed.data
             previousCount == IF master.exists THEN master.data.stats.totalGroups ELSE 0
         IN  /\ master' = writeJson(masterData)
             /\ obs' = [op     |-> "import",
                        status |-> "ok",
                        batch  |-> [i \in 1..Len(parsed.data.groups) |->
                                      parsed.data.groups[i].id],
                        merged |-> master.exists,
                        added  |-> masterData.stats.totalGroups - previousCount]

\* An input path that names no file, and a file whose text is not JSON
MissingFile == [t |-> "missing"]

NotJsonFile == [t |-> "notJson"]

\* onetab import --input <file>
ImportJson ==
    /\ obs = Idle
    /\ \E file \in {MissingFile, NotJsonFile} \cup ImportPayloads, readFails \in BOOLEAN :
          /\ readFails => master.exists
          /\ IF file = MissingFile
             THEN /\ obs' = Failed("import", "Input file not found")
                  /\ UNCHANGED master
             ELSE IF file = NotJsonFile
             THEN /\ obs' = Failed("import", "SyntaxError")
                  /\ UNCHANGED master
             ELSE FinishImport(parseOneTabJson(file, DevtoolsSource, now), readFails)
    /\ UNCHANGED now

\* onetab import --leveldb <dir>, or the default copy when it exists
ImportLevelDb ==
    /\ obs = Idle
    /\ \E db \in LevelDbDirs, readFails \in BOOLEAN :
          /\ readFails => master.exists
          /\ IF ~db.pathExists
             THEN /\ obs' = Failed("import", "LevelDB directory not found")
                  /\ UNCHANGED master
             ELSE FinishImport(parseLevelDb(db, LevelDbSource, now), readFails)
    /\ UNCHANGED now

\* onetab import with no source and no default copy
ImportNoSource ==
    /\ obs = Idle
    /\ obs' = Failed("import", "No input source specified")
    /\ UNCHANGED <<master, now>>

\* onetab search ... --format console
SearchCommand ==
    /\ obs = Idle
    /\ \E options \in CommandOptions :
          IF NoCriteria(options)
          THEN obs' = Failed("search", "No search criteria specified")
          ELSE IF ~master.exists
          THEN obs' = Failed("search", "Master data not found")
          ELSE obs' = [op      |-> "search",
                       status  |-> "ok",
                       options |-> options,
                       found   |-> Len(searchData(master.data, options))]
    /\ UNCHANGED <<master, now>>

\* The arguments of onetab export: the options of exportCommand and --single
ExportArgs ==
    [input   : {NoOption},
     output  : {NoOption, << <<"n">> >>},
     groupBy : {"", "week", "day"},
     from    : {NoDate, Month(2023, 11)},
     to      : {NoDate},
     single  : BOOLEAN]

\* writeText(filePath, content) as the master file sees it: the file is
\* replaced when the path is its own
writeText(file, filePath, content) ==
    IF filePath = MasterJson THEN [exists |-> TRUE, text |-> content] ELSE file

RECURSIVE WriteAll(_, _)
WriteAll(file, files) ==
    IF files = <<>> THEN file
    ELSE WriteAll(writeText(file, Head(files).filePath, Head(files).markdown),
                  Tail(files))

\* onetab export [--single] ...
ExportCommand ==
    /\ obs = Idle
    /\ \E args \in ExportArgs, tz \in TimeZones :
          \E options \in {ExportCliOptions(args)} :
             IF ~master.exists
             THEN /\ obs' = Failed("export", "Master data not found")
                  /\ UNCHANGED master
             ELSE \E out \in {IF options.single
                               THEN exportSingleFile(master.data, options, tz, now)
                               ELSE exportCommand(master.data, options, tz, now)} :
                     /\ master' = WriteAll(master, out.files)
                     /\ obs' = [op         |-> IF options.single THEN "single"
                                               ELSE "export",
                                status     |-> "ok",
                                args       |-> args,
                                written    |-> [i \in 1..Len(out.files) |->
                                                  out.files[i].filePath],
                                masterData |-> out.masterData]
    /\ UNCHANGED now

\* The keys of domainCounts
DomainCounts(masterData) ==
    UNION {{masterData.groups[i].tabs[j].domain :
               j \in 1..Len(masterData.groups[i].tabs)} :
           i \in 1..Len(masterData.groups)}

\* onetab domains
ListDomains ==
    /\ obs = Idle
    /\ IF ~master.exists
       THEN obs' = Failed("domains", "Master data not found")
       ELSE obs' = [op     |-> "domains",
                    status |-> "ok",
                    unique |-> Cardinality(DomainCounts(master.data))]
    /\ UNCHANGED <<master, now>>

\* The process of the command ends.
Exit ==
    /\ obs # Idle
    /\ obs' = Idle
    /\ UNCHANGED <<master, now>>

(***************************************************************************)
(* Direct calls of the exported functions.  obs holds the arguments and    *)
(* the result of the call the caller last made.                            *)
(***************************************************************************)
CallParse ==
    /\ obs = Idle
    /\ \E shape \in ArrayShapes \cup BrokenShapes, items \in CallArrays :
          /\ shape \in {"badTop", "null", "empty"} => items = <<>>
          /\ obs' = [op    |-> "parse",
                     shape |-> shape,
                     items |-> items,
                     valid |-> validateOneTabExport(Wrap(shape, items)),
                     out   |-> parseOneTabJson(Wrap(shape, items), DevtoolsSource, now)]
    /\ UNCHANGED <<master, now>>

CallMerge ==
    /\ obs = Idle
    /\ \E existing \in ExistingSamples, items \in IncomingItems :
          obs' = [op       |-> "merge",
                  existing |-> existing,
                  incoming |-> Parsed(items, now),
                  out      |-> mergeMasterData(existing, Parsed(items, now), now),
                  again    |-> FALSE]
    /\ UNCHANGED <<master, now>>

\* The caller merges the same batch into the result of the merge it made.
CallMergeAgain ==
    /\ obs.op = "merge"
    /\ ~obs.again
    /\ obs' = [op       |-> "merge",
               existing |-> obs.out,
               incoming |-> obs.incoming,
               out      |-> mergeMasterData(obs.out, obs.incoming, now),
               again    |-> TRUE]
    /\ UNCHANGED <<master, now>>

CallSearch ==
    /\ obs = Idle
    /\ \E data \in SearchSamples, options \in SearchOptions :
          obs' = [op      |-> "search",
                  data    |-> data,
                  options |-> options,
                  results |-> searchData(data, options),
                  warnings |-> searchWarnings(data, options)]
    /\ UNCHANGED <<master, now>>

CallParseFlexibleDate ==
    /\ obs = Idle
    /\ \E d \in DateInputs :
          obs' = [op     |-> "date",
                  d      |-> d,
                  asFrom |-> parseFlexibleDate(d, FALSE),
                  asTo   |-> parseFlexibleDate(d, TRUE)]
    /\ UNCHANGED <<master, now>>

CallExport ==
    /\ obs = Idle
    /\ \E data \in ExportSamples, options \in ExportOptions, tz \in TimeZones :
          obs' = [op      |-> "export",
                  data    |-> data,
                  options |-> options,
                  tz      |-> tz,
                  out     |-> exportCommand(data, options, tz, now)]
    /\ UNCHANGED <<master, now>>

CallExportSingle ==
    /\ obs = Idle
    /\ \E data \in ExportSamples, options \in ExportOptions, tz \in TimeZones :
          /\ options.groupBy = "" /\ options.from = NoDate /\ options.to = NoDate
          /\ obs' = [op      |-> "single",
                     data    |-> data,
                     options |-> options,
                     tz      |-> tz,
                     out     |-> exportSingleFile(data, options, tz, now)]
    /\ UNCHANGED <<master, now>>

CallParseLevelDb ==
    /\ obs = Idle
    /\ \E db \in LevelDbDirs, io \in IoErrors :
          obs' = [op  |-> "leveldb",
                  fn  |-> "parseLevelDb",
                  db  |-> db,
                  io  |-> io,
                  at  |-> now,
                  run |-> parseLevelDbWithHandle(db, io, LevelDbSource, now)]
    /\ UNCHANGED <<master, now>>

CallListLevelDbKeys ==
    /\ obs = Idle
    /\ \E db \in LevelDbDirs, io \in IoErrors :
          obs' = [op  |-> "leveldb",
                  fn  |-> "listLevelDbKeys",
                  db  |-> db,
                  io  |-> io,
                  run |-> listLevelDbKeys(db, io)]
    /\ UNCHANGED <<master, now>>

CallDumpLevelDb ==
    /\ obs = Idle
    /\ \E db \in LevelDbDirs, io \in IoErrors :
          obs' = [op  |-> "leveldb",
                  fn  |-> "dumpLevelDb",
                  db  |-> db,
                  io  |-> io,
                  run |-> dumpLevelDb(db, io)]
    /\ UNCHANGED <<master, now>>

\* The caller drops the result.
Return ==
    /\ obs # Idle
    /\ obs' = Idle
    /\ UNCHANGED <<master, now>>

Init == /\ master = NoFile
        /\ now = 0
        /\ obs = Idle

Tick == /\ now < MaxTicks
        /\ now' = now + 1
        /\ UNCHANGED <<master, obs>>

Next == \/ ImportJson
        \/ ImportLevelDb
        \/ ImportNoSource
        \/ SearchCommand
        \/ ExportCommand
        \/ ListDomains
        \/ Exit
        \/ Tick

Spec == Init /\ [][Next]_vars

NextCalls == \/ CallParse
             \/ CallMerge
             \/ CallMergeAgain
             \/ CallSearch
             \/ CallParseFlexibleDate
             \/ CallExport
             \/ CallExportSingle
             \/ CallParseLevelDb
             \/ CallListLevelDbKeys
             \/ CallDumpLevelDb
             \/ Return
             \/ Tick

SpecCalls == Init /\ [][NextCalls]_vars

(***************************************************************************)
(* Properties of the import command and the master file (under Spec).     *)
(***************************************************************************)
Range(seq) == {seq[i] : i \in 1..Len(seq)}

Occurrences(g, groups) == Cardinality({i \in 1..Len(groups) : groups[i] = g})

DistinctIds(ids) == \A i, j \in 1..Len(ids) : ids[i] = ids[j] => i = j

\* The ids of the groups in the master file, in file order
MasterIds ==
    IF master.exists
    THEN [i \in 1..Len(master.data.groups) |-> master.data.groups[i].id]
    ELSE <<>>

\* C1: once a group id is in the master file, every later import keeps that
\* group with the content it had when first stored.  In every step from a
\* state with a master file, each stored group is in the file afterwards
\* unchanged, and the groups of the new file whose id was already stored are
\* exactly the stored ones: an incoming group with a stored id is dropped,
\* whatever its content.
C1_ExistingGroupsWin ==
    [][master.exists =>
         /\ master'.exists
         /\ \A g \in Range(master.data.groups) \cup
                      {h \in Range(master'.data.groups) :
                          h.id \in GroupIds(master.data.groups)} :
               Occurrences(g, master'.data.groups) = Occurrences(g, master.data.groups)
      ]_vars

\* The scenario of C1: the file holds group a of the first batch, and the
\* batch {a', b} has just been merged, adding b alone.
C1_SecondBatchMerged ==
    /\ obs.op = "import" /\ obs.status = "ok" /\ obs.merged
    /\ obs.batch = << <<"b">>, <<"a">> >>
    /\ obs.added = 1
    /\ StoredGroup(transformGroup(gA1)) \in Range(master.data.groups)
    /\ StoredGroup(transformGroup(gA2)) \notin Range(master.data.groups)
    /\ Len(master.data.groups) = 2

\* C2 as stated: whatever validated payloads were imported, no two groups of
\* the master file share an id.
C2_OneGroupPerId == DistinctIds(MasterIds)

\* C2, amended: an import of a batch whose groups have distinct ids into a
\* master file without duplicate ids (or into none) writes a master file
\* without duplicate ids; importing such batches from no master file never
\* creates duplicates.
C2_OneGroupPerIdOfDistinctBatches ==
    [][(/\ obs'.op = "import" /\ obs'.status = "ok"
        /\ DistinctIds(obs'.batch)
        /\ DistinctIds(MasterIds))
       => DistinctIds(MasterIds')]_vars

\* A batch of two groups has been imported again and added nothing.
C2_BatchImportedAgain ==
    /\ obs.op = "import" /\ obs.status = "ok" /\ obs.merged
    /\ Len(obs.batch) = 2 /\ DistinctIds(obs.batch)
    /\ obs.added = 0
    /\ Range(obs.batch) = Range(MasterIds)
    /\ DistinctIds(MasterIds)

\* C4: in every master file, stats.totalGroups is the number of groups,
\* stats.totalTabs the sum of their tabCount, and, when there is a group,
\* dateRange.earliest and latest are the createdAt of the chronologically
\* first and last group.
C4_StatsMatchGroups ==
    master.exists =>
        LET groups == master.data.groups
            stats  == master.data.stats
        IN  /\ stats.totalGroups = Len(groups)
            /\ stats.totalTabs = SumTabCount(groups)
            /\ groups # <<>> =>
                  /\ \E g \in Range(groups) : stats.dateRange.earliest = g.createdAt
                  /\ \E g \in Range(groups) : stats.dateRange.latest = g.createdAt
                  /\ \A g \in Range(groups) :
                        /\ isoToEpoch(stats.dateRange.earliest) <= g.createdAtEpoch
                        /\ isoToEpoch(stats.dateRange.latest) >= g.createdAtEpoch

\* C6: an import that fails leaves the master file as it was, whether or not
\* there was one: a step into the failed state of an import changes nothing
\* of the file.
C6_FailedImportKeepsMaster ==
    [][(obs'.op = "import" /\ obs'.status = "failed") => master' = master]_vars

\* An import has failed on an invalid record while a master file with groups
\* existed.
C6_ImportFailedOverMaster ==
    /\ obs.op = "import" /\ obs.status = "failed"
    /\ obs.err = ErrInvalidEntries
    /\ master.exists
    /\ master.data.groups # <<>>

(***************************************************************************)
(* Properties of the exported functions (under SpecCalls).                 *)
(***************************************************************************)
\* C3 as stated: merging the same batch into the result of the merge gives
\* the same groups in the same order, the same stats and the same source.
C3_MergeAgainSame ==
    (obs.op = "merge" /\ obs.again) =>
        /\ obs.out.groups = obs.existing.groups
        /\ obs.out.stats = obs.existing.stats
        /\ obs.out.source = obs.existing.source

\* C3, amended: merging the same batch into the result of the merge adds no
\* group and gives the same groups in the same order, the same source, the
\* same totals and, when there is a group, the same dateRange; with no group
\* the dateRange is the time of the call, like exportedAt.
C3_MergeAgainSameButClock ==
    (obs.op = "merge" /\ obs.again) =>
        /\ obs.out.groups = obs.existing.groups
        /\ obs.out.source = obs.existing.source
        /\ obs.out.stats.totalGroups = obs.existing.stats.totalGroups
        /\ obs.out.stats.totalTabs = obs.existing.stats.totalTabs
        /\ obs.out.groups # <<>> => obs.out.stats = obs.existing.stats
        /\ obs.out.groups = <<>> =>
              /\ obs.out.stats.dateRange.earliest = obs.out.exportedAt
              /\ obs.out.stats.dateRange.latest = obs.out.exportedAt

\* A batch of two groups has been merged a second time, at a later time than
\* the first, into a result that holds more than the batch.
C3_BatchMergedTwice ==
    /\ obs.op = "merge" /\ obs.again
    /\ Len(obs.incoming.groups) = 2
    /\ Len(obs.out.groups) > 2
    /\ obs.out.exportedAt # obs.existing.exportedAt

HasType(obj, k, type) == obj.t = "object" /\ k \in DOMAIN obj.f /\ obj.f[k].t = type

\* A tab record with a string id, url and title
TabRecordOk(tab) ==
    HasType(tab, "id", "string") /\ HasType(tab, "url", "string")
      /\ HasType(tab, "title", "string")

\* A group record with a string id, a numeric createDate and a tabsMeta
\* array of such tab records
GroupRecordOk(group) ==
    /\ HasType(group, "id", "string")
    /\ HasType(group, "createDate", "number")
    /\ HasType(group, "tabsMeta", "array")
    /\ \A tab \in Range(group.f.tabsMeta.items) : TabRecordOk(tab)

\* C5: validateOneTabExport returns every element of the tabGroups array it
\* recognises or throws: when every element is a well-formed group record the
\* array comes back as it is, and when any element is not, the call throws
\* and returns no group, however many other elements are well-formed.
C5_AllOrNothing ==
    (obs.op = "parse" /\ obs.shape \in ArrayShapes) =>
        IF \A group \in Range(obs.items) : GroupRecordOk(group)
        THEN obs.valid.ok /\ obs.valid.groups = obs.items
        ELSE /\ ~obs.valid.ok
             /\ "groups" \notin DOMAIN obs.valid
             /\ ~obs.out.ok

\* A well-formed group came with a malformed one and the call threw.
C5_OneBadRecordFailsAll ==
    /\ obs.op = "parse" /\ obs.shape \in ArrayShapes
    /\ Len(obs.items) = 2
    /\ GroupRecordOk(obs.items[1])
    /\ ~GroupRecordOk(obs.items[2])
    /\ ~obs.valid.ok

NewestFirst(groups) ==
    \A i \in 1..(Len(groups) - 1) :
        groups[i].createdAtEpoch >= groups[i + 1].createdAtEpoch

\* C7: the groups of every parseOneTabJson result and every mergeMasterData
\* result are ordered newest first, whatever the order of the payload and of
\* the groups merged into.
C7_NewestFirst ==
    /\ (obs.op = "parse" /\ obs.out.ok) => NewestFirst(obs.out.data.groups)
    /\ obs.op = "merge" => NewestFirst(obs.out.groups)

\* A merge into groups that were not in order has added a group.
C7_MergedIntoUnordered ==
    /\ obs.op = "merge"
    /\ ~NewestFirst(obs.existing.groups)
    /\ Len(obs.out.groups) > Len(obs.existing.groups)
    /\ ~NewestFirst(obs.existing.groups \o obs.incoming.groups)

GroupEqualities(g) ==
    /\ g.tabCount = Len(g.tabs)
    /\ g.createdAt = epochToIso(g.createdAtEpoch)

\* The normalized group g is made of the group record: same id, createDate
\* taken over as it is, one tab for each tab record, in source order
MadeOf(g, record) ==
    LET meta == record.f.tabsMeta.items
    IN  /\ g.id = record.f.id.s
        /\ g.createdAtEpoch = record.f.createDate.n
        /\ Len(g.tabs) = Len(meta)
        /\ \A j \in 1..Len(meta) :
              /\ g.tabs[j].id = meta[j].f.id.s
              /\ g.tabs[j].url = meta[j].f.url.s

\* C8: every group that parseOneTabJson makes of an accepted payload has
\* tabCount = tabs.length and createdAt = the ISO string of createdAtEpoch,
\* with createdAtEpoch the source createDate and the tabs in source order;
\* and the two equalities hold for every group of a merge result.
C8_GroupEqualities ==
    /\ (obs.op = "parse" /\ obs.out.ok) =>
          /\ Len(obs.out.data.groups) = Len(obs.items)
          /\ \A g \in Range(obs.out.data.groups) : GroupEqualities(g)
          /\ \A record \in Range(obs.items) :
                \E g \in Range(obs.out.data.groups) : MadeOf(g, record)
    /\ obs.op = "merge" => \A g \in Range(obs.out.groups) : GroupEqualities(g)

\* A payload of two groups, one with two tabs (the first without a title),
\* was normalized and its groups came out in another order.
C8_TwoGroupsNormalized ==
    /\ obs.op = "parse" /\ obs.out.ok
    /\ Len(obs.items) = 2
    /\ obs.out.data.groups[1].id = obs.items[2].f.id.s
    /\ obs.out.data.groups[1].id # obs.items[1].f.id.s
    /\ obs.out.data.groups[2].tabCount = 2
    /\ obs.items[1].f.tabsMeta.items[1].f.title.s = <<>>

EncodedShapes == {"stateStr", "tabGroupsStr", "bothStr"}

\* Two calls of parseOneTabJson ended alike: the same groups, or the same error
SameOutcome(a, b) ==
    /\ a.ok = b.ok
    /\ a.ok => a.data.groups = b.data.groups
    /\ ~a.ok => a.err = b.err

\* C9: for an array G of well-formed group records, the payload with state,
\* state.tabGroups or both JSON-encoded is normalized to the same groups as
\* {state: {tabGroups: G}}; and a string that is not JSON fails the call
\* with the error that names the field, state or tabGroups.
C9_EncodedSameAsPlain ==
    obs.op = "parse" =>
        /\ (/\ obs.shape \in EncodedShapes
            /\ \A group \in Range(obs.items) : GroupRecordOk(group))
           => SameOutcome(obs.out,
                          parseOneTabJson(Wrap("state", obs.items), DevtoolsSource, 0))
        /\ obs.shape = "badState" =>
              ~obs.out.ok /\ obs.out.err = ErrStateJson
        /\ obs.shape \in {"badTabGroups", "badInner"} =>
              ~obs.out.ok /\ obs.out.err = ErrTabGroupsJson

\* A payload with state and tabGroups both encoded was normalized to two groups.
C9_BothEncodedParsed ==
    /\ obs.op = "parse" /\ obs.shape = "bothStr"
    /\ obs.out.ok
    /\ Len(obs.out.data.groups) = 2

\* First and last tick of the period a date option names
PeriodStart(d) ==
    Instant(DaysFromCivil(d.year,
                          IF d.kind = "year" THEN 1 ELSE d.month,
                          IF d.kind = "day" THEN d.day ELSE 1), 0)

PeriodEnd(d) ==
    CASE d.kind = "day"   -> Instant(DaysFromCivil(d.year, d.month, d.day), TicksPerDay - 1)
      [] d.kind = "month" ->
           Instant(DaysFromCivil(IF d.month = 12 THEN d.year + 1 ELSE d.year,
                                 IF d.month = 12 THEN 1 ELSE d.month + 1, 1), 0) - 1
      [] d.kind = "year"  -> Instant(DaysFromCivil(d.year + 1, 1, 1), 0) - 1

\* The group passes the from/to filter of the options
PassesDateFilter(group, options) ==
    /\ options.from # NoDate => group.createdAtEpoch >= PeriodStart(options.from)
    /\ options.to # NoDate => group.createdAtEpoch <= PeriodEnd(options.to)

Contains(text, part) == includes(toLowerCase(text), toLowerCase(part))

TextPredicate(tab, options) ==
    /\ options.query # <<>>
    /\ \/ Contains(tab.title, options.query)
       \/ Contains(tab.url, options.query)
       \/ Contains(tab.domain, options.query)

PatternPredicate(tab, options) ==
    \/ /\ options.titlePattern # <<>>
       /\ RegExpCompiles(options.titlePattern)
       /\ RegExpTest(options.titlePattern, tab.title)
    \/ /\ options.urlPattern # <<>>
       /\ RegExpCompiles(options.urlPattern)
       /\ RegExpTest(options.urlPattern, tab.url)

DomainPredicate(tab, options) ==
    options.domain # <<>> /\ Contains(tab.domain, options.domain)

Qualifies(group, tab, options) ==
    /\ PassesDateFilter(group, options)
    /\ TextPredicate(tab, options) \/ PatternPredicate(tab, options)
         \/ DomainPredicate(tab, options)

\* The results of the search that are of this tab of this group
ResultsOf(group, tab) ==
    {k \in 1..Len(obs.results) :
        /\ obs.results[k].tab = tab
        /\ obs.results[k].group = [id        |-> group.id,
                                   createdAt |-> group.createdAt,
                                   title     |-> GroupTitle(group)]}

\* C10: searchData returns a result for a tab iff the tab's group passes the
\* from/to filter and the text, a pattern or the domain predicate is true of
\* the tab; each such tab has exactly one result, which carries the id,
\* createdAt and title of its group, and there is no other result.
C10_ResultIffQualifies ==
    obs.op = "search" =>
        /\ \A group \in Range(obs.data.groups) : \A tab \in Range(group.tabs) :
              Cardinality(ResultsOf(group, tab)) =
                 IF Qualifies(group, tab, obs.options) THEN 1 ELSE 0
        /\ \A k \in 1..Len(obs.results) :
              \E group \in Range(obs.data.groups) : \E tab \in Range(group.tabs) :
                 k \in ResultsOf(group, tab)

\* A search returned a tab on one predicate alone, left out a tab no
\* predicate is true of, and left out a tab of a group outside the dates.
C10_SearchSelects ==
    /\ obs.op = "search"
    /\ obs.results # <<>>
    /\ \E k \in 1..Len(obs.results) :
          /\ obs.results[k].matches.inDomain
          /\ ~obs.results[k].matches.inTitle
          /\ ~obs.results[k].matches.inUrl
    /\ \E group \in Range(obs.data.groups) : \E tab \in Range(group.tabs) :
          /\ PassesDateFilter(group, obs.options)
          /\ ResultsOf(group, tab) = {}
    /\ \E group \in Range(obs.data.groups) : \E tab \in Range(group.tabs) :
          /\ ~PassesDateFilter(group, obs.options)
          /\ TextPredicate(tab, obs.options) \/ DomainPredicate(tab, obs.options)

\* The pattern is given, compiles and matches the text (case-insensitively)
PatternMatches(pattern, text) ==
    pattern # <<>> /\ RegExpCompiles(pattern) /\ RegExpTest(pattern, text)

QueryIn(text, options) == options.query # <<>> /\ Contains(text, options.query)

\* C11: in every search result, inTitle is true iff the query is a
\* case-insensitive substring of the title or titlePattern matches the title,
\* inUrl iff the query is such a substring of the url or urlPattern matches
\* the url, inDomain iff the query or the domain option is such a substring
\* of the tab's domain; each flag is the OR of its own predicates only.
C11_FlagsTellTheField ==
    obs.op = "search" =>
        \A k \in 1..Len(obs.results) :
            LET tab     == obs.results[k].tab
                matches == obs.results[k].matches
                options == obs.options
            IN  /\ matches.inTitle <=>
                      \/ QueryIn(tab.title, options)
                      \/ PatternMatches(options.titlePattern, tab.title)
                /\ matches.inUrl <=>
                      \/ QueryIn(tab.url, options)
                      \/ PatternMatches(options.urlPattern, tab.url)
                /\ matches.inDomain <=>
                      \/ QueryIn(tab.domain, options)
                      \/ DomainPredicate(tab, options)

\* A search by domain alone returned a tab whose URL holds the text as well:
\* inDomain is true, inTitle and inUrl are false.
C11_DomainAloneHit ==
    /\ obs.op = "search"
    /\ obs.options.query = <<>>
    /\ obs.options.titlePattern = <<>> /\ obs.options.urlPattern = <<>>
    /\ obs.options.domain # <<>>
    /\ \E k \in 1..Len(obs.results) :
          /\ obs.results[k].matches = [inTitle |-> FALSE, inUrl |-> FALSE,
                                       inDomain |-> TRUE]
          /\ Contains(obs.results[k].tab.url, obs.options.domain)

InvalidPattern(pattern) == pattern # <<>> /\ ~RegExpCompiles(pattern)

\* The options without the patterns that do not compile
WithoutInvalidPatterns(options) ==
    [options EXCEPT
        !.titlePattern = IF InvalidPattern(@) THEN <<>> ELSE @,
        !.urlPattern   = IF InvalidPattern(@) THEN <<>> ELSE @]

HasInvalidPattern(options) ==
    InvalidPattern(options.titlePattern) \/ InvalidPattern(options.urlPattern)

\* C12: a search with a titlePattern or urlPattern that does not compile
\* ends with a result (it does not throw), a warning is issued, and the
\* results are those of the same search without that pattern.
C12_InvalidPatternWarnsAndIsIgnored ==
    (obs.op = "search" /\ HasInvalidPattern(obs.options)) =>
        /\ obs.warnings >= 1
        /\ obs.results = searchData(obs.data, WithoutInvalidPatterns(obs.options))

\* The part of C12 that holds: the results are those of the same search
\* without the pattern, and a warning is issued for each tab examined.
C12_InvalidPatternIsIgnored ==
    (obs.op = "search" /\ HasInvalidPattern(obs.options)) =>
        obs.results = searchData(obs.data, WithoutInvalidPatterns(obs.options))

IsLeapYear(y) == (y % 4 = 0 /\ y % 100 # 0) \/ y % 400 = 0

\* The number of days of the month in the calendar of the Date object
DaysInMonth(y, m) ==
    IF m = 2 THEN (IF IsLeapYear(y) THEN 29 ELSE 28)
    ELSE IF m \in {4, 6, 9, 11} THEN 30 ELSE 31

\* The timestamp of a calendar day at a time of day, in the four-digit form
Stamp(y, m, d, tod) == [sign |-> "", year |-> y, month |-> m, day |-> d, tod |-> tod]

FirstInstantOf(d) ==
    Stamp(d.year,
          IF d.kind = "year" THEN 1 ELSE d.month,
          IF d.kind = "day" THEN d.day ELSE 1,
          0)

LastInstantOf(d) ==
    Stamp(d.year,
          IF d.kind = "year" THEN 12 ELSE d.month,
          CASE d.kind = "year"  -> 31
            [] d.kind = "month" -> DaysInMonth(d.year, d.month)
            [] d.kind = "day"   -> d.day,
          TicksPerDay - 1)

\* C14: parseFlexibleDate maps YYYY, YYYY-MM and YYYY-MM-DD to 00:00:00.000Z
\* of the first day of the period as from, and to 23:59:59.999Z of the last
\* calendar day of the period as to, for every month length; the from
\* instant is never after the to instant; a full timestamp comes back as it is.
C14_PeriodBounds ==
    obs.op = "date" =>
        IF obs.d.kind = "iso"
        THEN obs.asFrom = obs.d.iso /\ obs.asTo = obs.d.iso
        ELSE /\ obs.asFrom = FirstInstantOf(obs.d)
             /\ obs.asTo = LastInstantOf(obs.d)
             /\ isoToEpoch(obs.asFrom) <= isoToEpoch(obs.asTo)

\* The part of C14 that holds: the bounds are right for every input but the
\* end of February of the year 0000.
C14_PeriodBoundsButYearZero ==
    (obs.op = "date" /\ obs.d # Month(0, 2)) => C14_PeriodBounds

\* The groups of a sequence that satisfy Keep, in their order
Kept(groups, Keep(_)) == SelectSeq(groups, Keep)

\* The UTC month of the group's createdAt is month m of year y
InUtcMonth(group, y, m) ==
    LET c == CivilFromDays(group.createdAtEpoch \div TicksPerDay)
    IN  c.year = y /\ c.month = m

JunGroup == StoredGroup(transformGroup(gJun))

\* C13: the from/to filter of search and export is inclusive at both ends: a
\* group is kept iff its createdAt is not before the first instant of the
\* from period and not after the last instant of the to period; from = to =
\* 2025-06 keeps exactly the groups of that UTC month; the group of
\* 2025-06-15 is kept for from = 2025-06 and for to = 2025-06 and dropped
\* for from = 2025-07 and for to = 2025-05.
C13_InclusiveDateFilter ==
    /\ obs.op = "export" =>
          /\ obs.out.filteredGroups =
                Kept(obs.data.groups, LAMBDA g : PassesDateFilter(g, obs.options))
          /\ (obs.options.from = Month(2025, 6) /\ obs.options.to = Month(2025, 6)) =>
                obs.out.filteredGroups =
                   Kept(obs.data.groups, LAMBDA g : InUtcMonth(g, 2025, 6))
          /\ obs.data.groups = <<JunGroup>> =>
                (obs.out.filteredGroups = <<JunGroup>>
                   <=> /\ obs.options.from # Month(2025, 7)
                       /\ obs.options.to # Month(2025, 5))
    /\ obs.op = "search" =>
          /\ \A k \in 1..Len(obs.results) :
                \E g \in Range(obs.data.groups) :
                   /\ g.id = obs.results[k].group.id
                   /\ g.createdAt = obs.results[k].group.createdAt
                   /\ PassesDateFilter(g, obs.options)
          /\ \A g \in Range(obs.data.groups) : \A tab \in Range(g.tabs) :
                (\/ TextPredicate(tab, obs.options)
                 \/ PatternPredicate(tab, obs.options)
                 \/ DomainPredicate(tab, obs.options)) =>
                   (PassesDateFilter(g, obs.options) <=> ResultsOf(g, tab) # {})

\* An export with from = to = 2025-06 kept the groups at the first and at
\* the last instant of June and dropped the last instant of May and the
\* first of July.
C13_BothEndsKept ==
    /\ obs.op = "export"
    /\ obs.options.from = Month(2025, 6) /\ obs.options.to = Month(2025, 6)
    /\ Len(obs.data.groups) = 4
    /\ obs.out.filteredGroups = <<StoredGroup(transformGroup(gJunLast)),
                                  StoredGroup(transformGroup(gJunFirst))>>

RECURSIVE CountInBuckets(_, _)
CountInBuckets(g, periodMap) ==
    IF periodMap = <<>> THEN 0
    ELSE Occurrences(g, Head(periodMap).groups) + CountInBuckets(g, Tail(periodMap))

\* C15: groupByPeriod partitions its input for day, week and month: every
\* input group is in exactly one bucket exactly once, the buckets hold no
\* group that was not in the input, no bucket is empty, no key has two
\* buckets, and the groups of a bucket are in their input order.
C15_BucketsPartitionInput ==
    obs.op = "export" =>
        LET input   == obs.out.filteredGroups
            buckets == obs.out.periodMap
        IN  /\ \A g \in Range(input) :
                  CountInBuckets(g, buckets) = Occurrences(g, input)
            /\ \A i \in 1..Len(buckets) :
                  /\ buckets[i].groups # <<>>
                  /\ Range(buckets[i].groups) \subseteq Range(input)
                  /\ buckets[i].groups =
                        Kept(input, LAMBDA g : g \in Range(buckets[i].groups))
                  /\ \A j \in 1..Len(buckets) :
                        buckets[i].key = buckets[j].key => i = j

\* A four-group input went into three buckets; two groups that were not
\* neighbours in the input share a bucket, in their input order.
C15_TwoShareABucket ==
    /\ obs.op = "export"
    /\ Len(obs.out.filteredGroups) = 4
    /\ Len(obs.out.periodMap) = 3
    /\ \E i \in 1..3 :
          obs.out.periodMap[i].groups =
             <<obs.out.filteredGroups[1], obs.out.filteredGroups[3]>>

\* The calendar date of the group in the time zone of the run, as days
\* since 1970-01-01
LocalDay(group, tz) == (group.createdAtEpoch + tz) \div TicksPerDay

LocalTimeOfDay(group, tz) == (group.createdAtEpoch + tz) % TicksPerDay

\* Sunday = 0; 1970-01-01 was a Thursday
Weekday(day) == (day + 4) % 7

\* YYYY-Www with ww = ceil((dayOfYear + Jan1Weekday + 1) / 7), from whole
\* calendar days
WeekOfDate(day) ==
    LET jan1      == DaysFromCivil(CivilFromDays(day).year, 1, 1)
        dayOfYear == day - jan1
    IN  CeilDiv(dayOfYear + Weekday(jan1) + 1, 7)

WeekKey(year, ww) == YearChars(year) \o <<"-", "W">> \o PadStart(NumChars(ww), 2)

WeekKeyOfDate(day) == WeekKey(CivilFromDays(day).year, WeekOfDate(day))

KeysAre(KeyOf(_)) ==
    \A i \in 1..Len(obs.out.periodMap) :
       \A g \in Range(obs.out.periodMap[i].groups) :
          obs.out.periodMap[i].key = KeyOf(g)

\* C16: the week key of a group is YYYY-Www with ww = ceil((dayOfYear +
\* Jan1Weekday + 1) / 7) from the whole calendar days since January 1 of the
\* group's year, so it depends on the calendar date only and not on the time
\* of day; the month key is the first 7 characters of createdAt and the day
\* key the first 10.
C16_KeysOfCalendarDate ==
    obs.op = "export" =>
        CASE obs.options.groupBy = "week" ->
               KeysAre(LAMBDA g : WeekKeyOfDate(LocalDay(g, obs.tz)))
          [] obs.options.groupBy = "day" ->
               KeysAre(LAMBDA g : SubSeq(DateChars(g.createdAt), 1, 10))
          [] OTHER ->
               KeysAre(LAMBDA g : SubSeq(DateChars(g.createdAt), 1, 7))

\* The part of C16 that holds: the keys are as stated for every group but
\* one created on a Saturday after midnight, which gets the next week number.
C16_KeysButLateSaturdays ==
    obs.op = "export" =>
        CASE obs.options.groupBy = "week" ->
               KeysAre(LAMBDA g :
                          IF /\ Weekday(LocalDay(g, obs.tz)) = 6
                             /\ LocalTimeOfDay(g, obs.tz) # 0
                          THEN WeekKey(CivilFromDays(LocalDay(g, obs.tz)).year,
                                       WeekOfDate(LocalDay(g, obs.tz)) + 1)
                          ELSE WeekKeyOfDate(LocalDay(g, obs.tz)))
          [] obs.options.groupBy = "day" ->
               KeysAre(LAMBDA g : SubSeq(DateChars(g.createdAt), 1, 10))
          [] OTHER ->
               KeysAre(LAMBDA g : SubSeq(DateChars(g.createdAt), 1, 7))

\* The output directory and the granularity of the export in obs
ExportDir == IF obs.options.output = NoOption THEN OutputDir ELSE obs.options.output

ExportGroupBy == IF obs.options.groupBy = "" THEN "month" ELSE obs.options.groupBy

First(chars, n) == [i \in 1..n |-> chars[i]]

\* <outputDir>/<year>/<period>.md, for a day <outputDir>/<year>/<year-month>/<period>.md
PathOfKey(key) ==
    IF ExportGroupBy = "day"
    THEN ExportDir \o <<First(key, 4), First(key, 7), key \o <<".", "m", "d">> >>
    ELSE ExportDir \o <<First(key, 4), key \o <<".", "m", "d">> >>

\* One file per bucket, at the path of its key; two keys never share a path
PathsFollowKeys ==
    /\ Len(obs.out.files) = Len(obs.out.periodMap)
    /\ \A i \in 1..Len(obs.out.files) :
          /\ obs.out.files[i].filePath = PathOfKey(obs.out.periodMap[i].key)
          /\ \A j \in 1..Len(obs.out.files) :
                obs.out.files[i].filePath = obs.out.files[j].filePath => i = j

\* Every group Of week 1 of its year is in a bucket <year>-W01 whose file is
\* <year>/<year>-W01.md
WeekOneFiles(Of(_)) ==
    ExportGroupBy = "week" =>
       \A g \in Range(obs.out.filteredGroups) :
          (WeekOfDate(LocalDay(g, obs.tz)) = 1 /\ Of(g)) =>
             LET year == YearChars(CivilFromDays(LocalDay(g, obs.tz)).year)
                 key  == year \o <<"-", "W", "0", "1">>
             IN  \E i \in 1..Len(obs.out.files) :
                    /\ obs.out.periodMap[i].key = key
                    /\ g \in Range(obs.out.periodMap[i].groups)
                    /\ obs.out.files[i].filePath =
                          ExportDir \o <<year, key \o <<".", "m", "d">> >>

\* C17: the path of an export file is a function of period key and
\* granularity: month and week keys go to <outputDir>/<year>/<period>.md and
\* day keys to <outputDir>/<year>/<year-month>/<period>.md, year being the
\* first four characters of the key; distinct keys of one run have distinct
\* paths; a group of week 1 has key <year>-W01 and file <year>/<year>-W01.md.
C17_PathsOfKeys ==
    obs.op = "export" => PathsFollowKeys /\ WeekOneFiles(LAMBDA g : TRUE)

\* The part of C17 that holds: the paths follow the keys, and a group of week
\* 1 of a four-digit year is exported to <year>/<year>-W01.md unless it was
\* created on a Saturday after midnight.
C17_PathsOfKeysButLateSaturdays ==
    obs.op = "export" =>
        /\ PathsFollowKeys
        /\ WeekOneFiles(LAMBDA g :
              /\ ~(Weekday(LocalDay(g, obs.tz)) = 6 /\ LocalTimeOfDay(g, obs.tz) # 0)
              /\ CivilFromDays(LocalDay(g, obs.tz)).year \in 1000..9999)

\* C18: onetab export --single without --output writes the one document to
\* all-links.md inside the default output directory (./output/all-links.md),
\* not to the path ./output itself.
C18_SingleGoesToAllLinks ==
    (obs.op = "single" /\ obs.args.output = NoOption) =>
        obs.written = << OutputDir \o <<AllLinksMd>> >>

\* What the command does instead: the document goes to the path that is the
\* value of the output option, which is ./output when the option is not given.
C18_SingleGoesToOutputOption ==
    obs.op = "single" =>
        obs.written = << IF obs.args.output = NoOption THEN OutputDir
                         ELSE obs.args.output >>

ReadingCommands == {"search", "domains", "export", "single"}

\* C19: no search, domains, per-period export or single-file export run with
\* default paths changes the master file, and the record read from it is the
\* same in memory after the filtering, bucketing, sorting and rendering.
C19_ReadersKeepMaster ==
    [][obs'.op \in ReadingCommands =>
          /\ master' = master
          /\ "masterData" \in DOMAIN obs' => obs'.masterData = master.data]_vars

\* An export wrote two files from a stored master and left the file and the
\* record read from it as they were.
C19_ExportRan ==
    /\ obs.op = "export"
    /\ obs.status = "ok"
    /\ Len(obs.written) = 2
    /\ master.exists
    /\ obs.masterData = master.data

\* The handle was opened and not closed afterwards
LeftOpen(handle) ==
    \E i \in 1..Len(handle) :
       /\ handle[i] = "open"
       /\ \A j \in (i + 1)..Len(handle) : handle[j] # "closed"

\* C20: in parseLevelDb, listLevelDbKeys and dumpLevelDb a store handle that
\* was opened is closed before the operation returns or throws, on every
\* exit path: data parsed, no data found, data rejected by validation, an
\* error of open, get or iteration.  What parseLevelDb returns is what the
\* import command gets from it.
C20_HandleClosedAtEnd ==
    obs.op = "leveldb" =>
        /\ ~LeftOpen(obs.run.handle)
        /\ (obs.fn = "parseLevelDb" /\ obs.io = "none") =>
              obs.run.out = parseLevelDb(obs.db, LevelDbSource, obs.at)

\* An operation threw err after it had opened the store, and had closed it
ThrewWithHandleClosed(fn, err) ==
    /\ obs.op = "leveldb"
    /\ obs.fn = fn
    /\ obs.run.handle = <<"created", "open", "closed">>
    /\ ~obs.run.out.ok
    /\ obs.run.out.err = err

\* parseLevelDb found data the validation rejects, threw, and had closed
\* the handle.
C20_RejectedWithHandleClosed == ThrewWithHandleClosed("parseLevelDb", ErrInvalidEntries)

\* The first ten characters of the stats dates as derived from the groups
DerivedDateRange(groups) ==
    [earliest |-> getDateOnly(CalcStats(groups, 0).dateRange.earliest),
     latest   |-> getDateOnly(CalcStats(groups, 0).dateRange.latest)]

\* C21: the stats block of a loaded master is never used as truth of its
\* own: the number of new groups import reports and the totals and date
\* range in the header of the single-file export equal the values derived
\* from the groups, even when the stored stats disagree with the groups.
C21_ReportsDerivedFromGroups ==
    /\ obs.op = "merge" =>
          ReportedNewGroups(obs.existing, obs.out) =
             Len(obs.out.groups) - Len(obs.existing.groups)
    /\ obs.op = "single" =>
          LET header == obs.out.files[1].markdown
              groups == obs.data.groups
          IN  /\ header.totalGroups = Len(groups)
              /\ header.totalTabs = SumTabCount(groups)
              /\ groups # <<>> =>
                    header.dateRange = DerivedDateRange(groups)

\* The part of C21 that holds: what is computed for writing does not use the
\* stored stats.  The stats of a merged master are those of its groups, and
\* the header of each per-period file counts the groups and tabs of its
\* bucket.
C21_WrittenStatsDerived ==
    /\ obs.op = "merge" =>
          /\ obs.out.stats.totalGroups = Len(obs.out.groups)
          /\ obs.out.stats.totalTabs = SumTabCount(obs.out.groups)
    /\ obs.op = "export" =>
          \A i \in 1..Len(obs.out.files) :
             /\ obs.out.files[i].markdown.totalGroups = Len(obs.out.periodMap[i].groups)
             /\ obs.out.files[i].markdown.totalTabs =
                   SumTabCount(obs.out.periodMap[i].groups)

\* The merge of the call in obs the other way round: the stored record
\* merged into the batch
MergedOtherWay == mergeMasterData(obs.incoming, obs.existing, now)

\* C22: merge membership does not depend on the order of the arguments: the
\* ids of mergeMasterData(M, N).groups and of mergeMasterData(N, M).groups
\* are both the union of the ids of M and of N, and both results are ordered
\* newest first; only the content kept for an id of both may differ.
C22_SameIdsBothWays ==
    obs.op = "merge" =>
        /\ GroupIds(obs.out.groups) = GroupIds(MergedOtherWay.groups)
        /\ GroupIds(obs.out.groups) =
              GroupIds(obs.existing.groups) \cup GroupIds(obs.incoming.groups)
        /\ NewestFirst(obs.out.groups)
        /\ NewestFirst(MergedOtherWay.groups)
        /\ \A g \in Range(obs.out.groups) :
              g.id \notin GroupIds(obs.existing.groups) \cap GroupIds(obs.incoming.groups)
                 => g \in Range(MergedOtherWay.groups)

\* M and N share an id with different content and each has an id of its
\* own; the two merges hold the same ids and different groups.
C22_SharedIdMergedBothWays ==
    /\ obs.op = "merge"
    /\ GroupIds(obs.existing.groups) \cap GroupIds(obs.incoming.groups) # {}
    /\ GroupIds(obs.existing.groups) \ GroupIds(obs.incoming.groups) # {}
    /\ GroupIds(obs.incoming.groups) \ GroupIds(obs.existing.groups) # {}
    /\ Range(obs.out.groups) # Range(MergedOtherWay.groups)
    /\ GroupIds(obs.out.groups) = GroupIds(MergedOtherWay.groups)

\* The hostname portion of a url, as written in the url
HostnameOf(url) ==
    IF UrlParses(url) THEN UrlHost(url)
    ELSE IF RegexHost(url) # <<>> THEN RegexHost(url)
    ELSE Unknown

\* The tabs of the parse result in obs with the tabsMeta entries they were
\* made of, for a payload that was accepted
ParsedTabsAre(Ok(_, _)) ==
    (obs.op = "parse" /\ obs.out.ok) =>
        \A g \in Range(obs.out.data.groups) :
           \E i \in 1..Len(obs.items) :
              LET meta == Field(obs.items[i], "tabsMeta").items
              IN  /\ Field(obs.items[i], "id").s = g.id
                  /\ Len(g.tabs) = Len(meta)
                  /\ \A j \in 1..Len(meta) : Ok(g.tabs[j], meta[j])

\* C23: for every url that validation accepts, the domain of the normalized
\* tab is the lower-cased hostname portion of the url, also when the url
\* does not parse and the regex fallback is used; an empty title is
\* replaced by that domain.
C23_DomainIsLowerCasedHost ==
    ParsedTabsAre(LAMBDA tab, meta :
        /\ tab.domain = toLowerCase(HostnameOf(Field(meta, "url").s))
        /\ tab.title = IF Field(meta, "title").s # <<>> THEN Field(meta, "title").s
                       ELSE tab.domain)

\* The part of C23 that holds: the domain is the hostname portion, lower-cased
\* when the url parses and as written in the url when it does not, and an
\* empty title is replaced by it.
C23_DomainIsHostAsParsed ==
    ParsedTabsAre(LAMBDA tab, meta :
        /\ tab.domain = IF UrlParses(Field(meta, "url").s)
                        THEN toLowerCase(HostnameOf(Field(meta, "url").s))
                        ELSE HostnameOf(Field(meta, "url").s)
        /\ tab.title = IF Field(meta, "title").s # <<>> THEN Field(meta, "title").s
                       ELSE tab.domain)

(***************************************************************************)
(* C24: the one write of an import.                                        *)
(***************************************************************************)
\* A complete MasterData value as the file holds it
CompleteMaster(file) ==
    /\ file.exists
    /\ DOMAIN file.data = {"schemaVersion", "exportedAt", "source", "stats", "groups"}
    /\ DOMAIN file.data.stats = {"totalGroups", "totalTabs", "dateRange"}
    /\ \A g \in Range(file.data.groups) :
          /\ {"id", "createdAt", "createdAtEpoch", "tabCount", "tabs"} \subseteq DOMAIN g
          /\ g.tabCount = Len(g.tabs)

ParsedLevelDb ==
    /\ obs.op = "leveldb" /\ obs.fn = "parseLevelDb" /\ obs.io = "none"
    /\ obs.db.pathExists /\ obs.db.hasCurrent /\ ~obs.db.locked

NormalizedFrom(rawData) == parseOneTabJson(rawData, LevelDbSource, obs.at)

\* The known keys whose value is a valid export, in the order of ONETAB_KEYS
ValidKnownKeys(store) ==
    SelectSeq(ONETAB_KEYS,
              LAMBDA key : /\ tryGetValue(store, key) # JNull
                           /\ NormalizedFrom(tryGetValue(store, key)).ok)

\* C25 as stated: the data is taken from the first known key that holds a
\* valid export; when no known key does, a present key with an invalid value
\* included, all keys are scanned and the data is what the scan finds, and
\* only when the scan finds nothing is "no data" reported.
C25_ScansWhenNoKnownKeyIsValid ==
    ParsedLevelDb =>
        LET store == obs.db.store
            valid == ValidKnownKeys(store)
        IN  obs.run.out =
               IF valid # <<>> THEN NormalizedFrom(tryGetValue(store, Head(valid)))
               ELSE IF scanForOneTabData(store) # JNull
               THEN NormalizedFrom(scanForOneTabData(store))
               ELSE Throw(ErrNoData)

\* The known keys that hold a value at all, in the order of ONETAB_KEYS
PresentKnownKeys(store) ==
    SelectSeq(ONETAB_KEYS, LAMBDA key : tryGetValue(store, key) # JNull)

\* What holds of the code: the data is taken from the first known key that
\* holds a non-empty value, valid or not, and the scan runs only when no
\* known key holds one.
C25_ScansWhenNoKnownKeyIsPresent ==
    ParsedLevelDb =>
        LET store   == obs.db.store
            present == PresentKnownKeys(store)
        IN  obs.run.out =
               IF present # <<>> THEN NormalizedFrom(tryGetValue(store, Head(present)))
               ELSE IF scanForOneTabData(store) # JNull
               THEN NormalizedFrom(scanForOneTabData(store))
               ELSE Throw(ErrNoData)

\* The store gave scanned data while a known key held an invalid value
C25_InvalidKnownKeyAndScannableData ==
    /\ ParsedLevelDb
    /\ PresentKnownKeys(obs.db.store) # <<>>
    /\ ValidKnownKeys(obs.db.store) = <<>>
    /\ scanForOneTabData(obs.db.store) # JNull
    /\ NormalizedFrom(scanForOneTabData(obs.db.store)).ok

(***************************************************************************)
(* C26: the period file.                                                   *)
(***************************************************************************)
Orderings(n) ==
    {p \in [1..n -> 1..n] : \A i, j \in 1..n : p[i] = p[j] => i = j}

RECURSIVE TabsIn(_)
TabsIn(groups) ==
    IF groups = <<>> THEN 0
    ELSE TabsIn(SubSeq(groups, 1, Len(groups) - 1)) + groups[Len(groups)].tabCount

\* section is the rendering of group: the starred marker exactly when
\* starred is true, and one link per tab, in the order of the tabs
SectionOf(section, group) ==
    /\ section.starred = (group.starred = JBool(TRUE))
    /\ Len(section.links) = Len(group.tabs)
    /\ \A j \in 1..Len(group.tabs) : section.links[j].url = group.tabs[j].url

\* markdown is the period file of groups: the counts of the header, and the
\* sections of the groups, each once, newest first
PeriodFileOf(markdown, groups) ==
    /\ markdown.totalGroups = Len(groups)
    /\ markdown.totalTabs = TabsIn(groups)
    /\ Len(markdown.sections) = Len(groups)
    /\ \E p \in Orderings(Len(groups)) :
          /\ \A i \in 1..Len(groups) : SectionOf(markdown.sections[i], groups[p[i]])
          /\ \A i, j \in 1..Len(groups) :
                i < j => groups[p[i]].createdAtEpoch >= groups[p[j]].createdAtEpoch

\* C26: every period file has in its header the number of the groups of its
\* period and the sum of their tabCount, and lists those groups newest first
\* by createdAtEpoch, whatever their order in the input, each with one link
\* per tab in tab order and the starred marker exactly when starred is true;
\* the groups handed to the export keep their order.
C26_PeriodFileNewestFirst ==
    (obs.op = "export" /\ "out" \in DOMAIN obs) =>
        /\ \A i \in 1..Len(obs.out.files) :
              PeriodFileOf(obs.out.files[i].markdown, obs.out.periodMap[i].groups)
        /\ obs.out.masterData = obs.data

\* A period file has been made of three groups that came oldest first in
\* part, one of them starred.
C26_UnorderedPeriodRendered ==
    /\ obs.op = "export" /\ "out" \in DOMAIN obs
    /\ \E i \in 1..Len(obs.out.files) :
          LET groups == obs.out.periodMap[i].groups
          IN  /\ Len(groups) = 3
              /\ groups[1].createdAtEpoch < groups[3].createdAtEpoch
              /\ groups[2].createdAtEpoch < groups[1].createdAtEpoch
              /\ \E g \in Range(groups) : g.starred = JBool(TRUE)
              /\ \E g \in Range(groups) : g.starred = JBool(FALSE)
              /\ obs.out.files[i].markdown.sections[1].starred

\* The name under which validateOneTabExport looks for the value of a key
PlainKey(key) == IF key \in {"state", "_state"} THEN "state" ELSE "tabGroups"

\* The export that the value stored under key is
ExportUnder(store, key) ==
    NormalizedFrom(JObj((PlainKey(key) :> JSONparse(DbGet(store, key).val).val)))

\* key is the one known key of the store, and its value is a valid export
OnlyKnownKey(store, key) ==
    /\ PresentKnownKeys(store) = <<key>>
    /\ \A i \in 1..Len(store) : store[i].key \in Range(ONETAB_KEYS) => store[i].key = key
    /\ JSONparse(DbGet(store, key).val).ok
    /\ ExportUnder(store, key).ok

ReadsTheOnlyKnownKey(keys) ==
    ParsedLevelDb =>
        \A key \in keys :
           OnlyKnownKey(obs.db.store, key) =>
              /\ obs.run.out = ExportUnder(obs.db.store, key)
              /\ obs.run.out.data.source.extractionMethod = "leveldb"

\* C27 as stated: a store whose one known key, any of the four, holds a
\* valid state or tabGroups value gives the master data normalized from
\* that value, with extractionMethod leveldb.
C27_AnyKnownKeyAloneIsRead == ReadsTheOnlyKnownKey(Range(ONETAB_KEYS))

\* What holds of the code: so it is for the keys state and tabGroups.
C27_PlainKnownKeyAloneIsRead == ReadsTheOnlyKnownKey({"state", "tabGroups"})

\* A store whose one known key is _state or _tabGroups, with a valid value
C27_UnderscoreKeyAlone ==
    /\ ParsedLevelDb
    /\ \E key \in {"_state", "_tabGroups"} : OnlyKnownKey(obs.db.store, key)
    /\ ~obs.run.out.ok

\* A store whose one known key is state or tabGroups has been read
C27_PlainKeyAlone ==
    /\ ParsedLevelDb
    /\ \E key \in {"state", "tabGroups"} : OnlyKnownKey(obs.db.store, key)
    /\ obs.run.out.ok
    /\ obs.run.out.data.groups # <<>>

(***************************************************************************)
(* C28: day keys and week keys.                                            *)
(***************************************************************************)
SameWeekWhenever(Alike(_, _)) ==
    obs.op = "export" =>
        \A g, h \in Range(obs.data.groups) :
           Alike(g, h) =>
              PeriodKey(g, "week", obs.tz) = PeriodKey(h, "week", obs.tz)

\* C28: two groups that get the same day key get the same week key.
C28_SameDaySameWeek ==
    SameWeekWhenever(LAMBDA g, h :
        PeriodKey(g, "day", obs.tz) = PeriodKey(h, "day", obs.tz))

\* What holds of the code: two groups of the same calendar date of the time
\* zone of the run get the same week key unless that date is a Saturday.
C28_SameLocalDaySameWeekButSaturdays ==
    SameWeekWhenever(LAMBDA g, h :
        /\ LocalDay(g, obs.tz) = LocalDay(h, obs.tz)
        /\ Weekday(LocalDay(g, obs.tz)) # 6)

\* Two groups of one day have been exported by week into two buckets
C28_OneDayInTwoWeeks ==
    /\ obs.op = "export" /\ obs.options.groupBy = "week"
    /\ \E i, j \in 1..Len(obs.out.periodMap) :
          /\ i # j
          /\ \E g \in Range(obs.out.periodMap[i].groups) :
                \E h \in Range(obs.out.periodMap[j].groups) :
                   getDateOnly(g.createdAt) = getDateOnly(h.createdAt)

(***************************************************************************)
(* C29: a search by dates alone.                                           *)
(***************************************************************************)
\* None of query, titlePattern, urlPattern and domain is given
NoPredicate(options) ==
    /\ options.query = <<>> /\ options.titlePattern = <<>>
    /\ options.urlPattern = <<>> /\ options.domain = <<>>

InvalidBound(d, endOfPeriod) == d # NoDate /\ ~ValidTime(parseFlexibleDate(d, endOfPeriod))

\* The search command has run with a from or to that denotes no date
SearchedWithInvalidBound ==
    /\ obs.op = "search" /\ obs.status = "ok"
    /\ InvalidBound(obs.options.from, FALSE) \/ InvalidBound(obs.options.to, TRUE)

\* C30: a search given a from or to that denotes no date fails or selects no
\* group, so it finds nothing.
C30_InvalidBoundSelectsNothing == SearchedWithInvalidBound => obs.found = 0

\* The options without the bounds that denote no date
WithoutInvalidBounds(options) ==
    [options EXCEPT !.from = IF InvalidBound(@, FALSE) THEN NoDate ELSE @,
                    !.to   = IF InvalidBound(@, TRUE) THEN NoDate ELSE @]

\* What holds of the code: the search finds what it finds without the bound.
C30_InvalidBoundIsIgnored ==
    SearchedWithInvalidBound =>
        obs.found = Len(searchData(master.data, WithoutInvalidBounds(obs.options)))

\* A search with from month 13 has found tabs
C30_FoundDespiteMonth13 ==
    /\ SearchedWithInvalidBound
    /\ obs.options.from = Month(2023, 13)
    /\ obs.found > 0
====
